---------------------------- MODULE Spec2Model ----------------------------
(***************************************************************************)
(* Friday personal assistant: the resource-governance core.                *)
(*                                                                         *)
(*   permission.py       classify_command      (risk tier of a command)    *)
(*   decision_engine.py  estimate_cost, decide (the decision gate)         *)
(*   state_manager.py    SystemState           (mode, readings, stress)    *)
(*   reflection_engine.py                      (safe-mode breaker)         *)
(*   executor.py         execute_instruction   (the execute pipeline)      *)
(*   scheduler.py        autonomous_loop       (the background loop)       *)
(*                                                                         *)
(* Text is a sequence of one-character strings, so that the regular        *)
(* expressions of the source are matched character by character.           *)
(***************************************************************************)
EXTENDS Integers, Sequences, FiniteSets, Bags, TLC

VARIABLES
    now,        \* time.time(), in seconds
    st,         \* main.system_state: the SystemState record
    safe_mode,  \* reflection_engine._safe_mode
    settings,   \* config_loader.Settings, fixed at process start
    models,     \* ModelController._models: name -> ModelRecord
    events,     \* the rows of table resource_events: a bag of rows
    sched,      \* the scheduler task: where it is suspended, and its locals
    req,        \* the HTTP requests of a run; for /execute, where it is
                \* suspended, and its locals
    hist,       \* history: the last stress evaluation, and since when the CPU
                \* reading held by SystemState has been above the threshold
    args,       \* inputs of a direct call of a pure function
    ret         \* what that call returned

None == "None"

(***************************************************************************)
(* Characters and words                                                    *)
(***************************************************************************)
LowerLetters ==
    { "a","b","c","d","e","f","g","h","i","j","k","l","m",
      "n","o","p","q","r","s","t","u","v","w","x","y","z" }

UpperToLower ==
    [ c \in { "A","B","C","D","E","F","G","H","I","J","K","L","M",
              "N","O","P","Q","R","S","T","U","V","W","X","Y","Z" } |->
        CASE c = "A" -> "a" [] c = "B" -> "b" [] c = "C" -> "c" [] c = "D" -> "d"
          [] c = "E" -> "e" [] c = "F" -> "f" [] c = "G" -> "g" [] c = "H" -> "h"
          [] c = "I" -> "i" [] c = "J" -> "j" [] c = "K" -> "k" [] c = "L" -> "l"
          [] c = "M" -> "m" [] c = "N" -> "n" [] c = "O" -> "o" [] c = "P" -> "p"
          [] c = "Q" -> "q" [] c = "R" -> "r" [] c = "S" -> "s" [] c = "T" -> "t"
          [] c = "U" -> "u" [] c = "V" -> "v" [] c = "W" -> "w" [] c = "X" -> "x"
          [] c = "Y" -> "y" [] c = "Z" -> "z" ]

Digits == { "0","1","2","3","4","5","6","7","8","9" }

\* \w of the re module
IsWordChar(c) == c \in LowerLetters \cup DOMAIN UpperToLower \cup Digits \cup {"_"}

\* \s of the re module
IsSpace(c) == c \in { " ", "\t", "\n", "\r" }

\* re.IGNORECASE: a character is compared by its lower-case form
Lower(c) == IF c \in DOMAIN UpperToLower THEN UpperToLower[c] ELSE c

\* \b : exactly one of the characters left and right of position i is a word
\* character (position i lies before text[i]; the ends count as non-word)
AtBoundary(text, i) ==
    LET left  == i > 1 /\ IsWordChar(text[i - 1])
        right == i <= Len(text) /\ IsWordChar(text[i])
    IN  left # right

\* the literal w (lower case) stands at position i of text, case ignored
HasPrefixAt(text, i, w) ==
    /\ i + Len(w) - 1 <= Len(text)
    /\ \A j \in 1..Len(w) : Lower(text[i + j - 1]) = w[j]

(***************************************************************************)
(* Regular expressions: a pattern is a sequence of atoms                   *)
(*   "b"    \b                                                             *)
(*   "lit"  one of the literals ws, e.g. (clone|pull)                      *)
(*   "ws+"  \s+                                                            *)
(*   "any*" .*   (any characters but a newline)                            *)
(***************************************************************************)
B == [t |-> "b", ws |-> {}]
L(w) == [t |-> "lit", ws |-> {w}]
Alt(S) == [t |-> "lit", ws |-> S]
WS1 == [t |-> "ws+", ws |-> {}]
ANY == [t |-> "any*", ws |-> {}]

\* atoms k.. of pat match text from position i on
RECURSIVE MatchAt(_, _, _, _)
MatchAt(pat, k, text, i) ==
    IF k > Len(pat) THEN TRUE
    ELSE LET a == pat[k] IN
         CASE a.t = "b" ->
                AtBoundary(text, i) /\ MatchAt(pat, k + 1, text, i)
           [] a.t = "lit" ->
                \E w \in a.ws :
                    HasPrefixAt(text, i, w) /\ MatchAt(pat, k + 1, text, i + Len(w))
           [] a.t = "ws+" ->
                \E n \in 1..(Len(text) - i + 1) :
                    /\ \A j \in i..(i + n - 1) : IsSpace(text[j])
                    /\ MatchAt(pat, k + 1, text, i + n)
           [] a.t = "any*" ->
                \E n \in 0..(Len(text) - i + 1) :
                    /\ \A j \in i..(i + n - 1) : text[j] # "\n"
                    /\ MatchAt(pat, k + 1, text, i + n)

\* pattern.search(text)
Search(pat, text) == \E i \in 1..(Len(text) + 1) : MatchAt(pat, 1, text, i)

(***************************************************************************)
(* Texts: instructions and commands                                        *)
(***************************************************************************)
\* "train a model on the dataset"
I_train == <<"t","r","a","i","n"," ","a"," ","m","o","d","e","l"," ","o","n"," ","t","h","e"," ","d","a","t","a","s","e","t">>
\* "list files"
I_list == <<"l","i","s","t"," ","f","i","l","e","s">>
\* "install numpy"
I_install == <<"i","n","s","t","a","l","l"," ","n","u","m","p","y">>
\* "Compile the project"
I_compile == <<"C","o","m","p","i","l","e"," ","t","h","e"," ","p","r","o","j","e","c","t">>
\* "ls -la"
C_ls == <<"l","s"," ","-","l","a">>
\* "pip install numpy"
C_pip == <<"p","i","p"," ","i","n","s","t","a","l","l"," ","n","u","m","p","y">>
\* "python fit.py"
C_python == <<"p","y","t","h","o","n"," ","f","i","t",".","p","y">>
\* "rm -rf /tmp/x"
C_rm == <<"r","m"," ","-","r","f"," ","/","t","m","p","/","x">>
\* "docker build ."
C_docker == <<"d","o","c","k","e","r"," ","b","u","i","l","d"," ",".">>
\* "sudo pip install x"
C_sudo == <<"s","u","d","o"," ","p","i","p"," ","i","n","s","t","a","l","l"," ","x">>
\* "tar xf a.tar"
C_tar == <<"t","a","r"," ","x","f"," ","a",".","t","a","r">>
\* "format disk"
C_format == <<"f","o","r","m","a","t"," ","d","i","s","k">>

\* "Error: OpenRouter returned status 500"
C_error == <<"E","r","r","o","r",":"," ","O","p","e","n","R","o","u","t","e","r"," ","r","e","t","u","r","n","e","d"," ","s","t","a","t","u","s"," ","5","0","0">>

\* what the /execute requests of the system are given, and what the language
\* model answers
RequestInstructions == { I_list, I_train }
GeneratedCommands == { C_ls, C_pip, C_rm, C_error }

(***************************************************************************)
(* permission.py                                                           *)
(***************************************************************************)
DANGEROUS_KEYWORDS ==
    { <<"r","m">>, <<"s","u","d","o">>, <<"a","p","t">>,
      <<"s","y","s","t","e","m","c","t","l">>, <<"c","h","m","o","d">>, <<"c","h","o","w","n">>,
      <<"m","k","f","s">>, <<"d","d">>, <<"k","i","l","l">>,
      <<"k","i","l","l","a","l","l">>, <<"r","e","b","o","o","t">>, <<"s","h","u","t","d","o","w","n">>,
      <<"f","d","i","s","k">>, <<"p","a","r","t","e","d">>, <<"m","o","u","n","t">>,
      <<"u","m","o","u","n","t">>, <<"i","p","t","a","b","l","e","s">>, <<"u","s","e","r","d","e","l">>,
      <<"u","s","e","r","a","d","d">>, <<"p","a","s","s","w","d">>, <<"c","r","o","n","t","a","b">> }

MODERATE_KEYWORDS ==
    { <<"m","v">>, <<"c","p">>, <<"p","i","p">>,
      <<"n","p","m">>, <<"w","g","e","t">>, <<"c","u","r","l">>,
      <<"d","o","c","k","e","r">>, <<"g","i","t">>, <<"s","n","a","p">>,
      <<"f","l","a","t","p","a","k">>, <<"d","p","k","g">> }

\* the keyword pattern without its word boundaries (plain substring search)
KeywordPatternUnanchored(keywords) == << Alt(keywords) >>

\* r"\b(" + "|".join(keywords) + r")\b", re.IGNORECASE
KeywordPattern(keywords) == << B, Alt(keywords), B >>

_DANGEROUS_RE == KeywordPattern(DANGEROUS_KEYWORDS)
_MODERATE_RE == KeywordPattern(MODERATE_KEYWORDS)

\* classify_command with the moderate test made before the dangerous one
classify_command_moderate_first(command) ==
    IF Search(_MODERATE_RE, command) THEN "moderate"
    ELSE IF Search(_DANGEROUS_RE, command) THEN "dangerous"
    ELSE "safe"

\* classify_command whose final else branch is missing: level is never set
classify_command_no_default(command) ==
    IF Search(_DANGEROUS_RE, command) THEN "dangerous"
    ELSE IF Search(_MODERATE_RE, command) THEN "moderate"
    ELSE None

\* the two searches of classify_command
classify_command_search(command) ==
    IF Search(_DANGEROUS_RE, command) THEN "dangerous"
    ELSE IF Search(_MODERATE_RE, command) THEN "moderate"
    ELSE "safe"

\* classify_command is pure: on the commands of the running system it is
\* computed once
RECURSIVE classify_command_on(_)
classify_command_on(commands) ==
    LET command == CHOOSE c \in commands : TRUE
        known == command :> classify_command_search(command)
    IN  IF commands = { command } THEN known
        ELSE known @@ classify_command_on(commands \ { command })

classify_command_known == classify_command_on(GeneratedCommands)

classify_command(command) ==
    IF command \in DOMAIN classify_command_known
    THEN classify_command_known[command]
    ELSE classify_command_search(command)


(***************************************************************************)
(* decision_engine.py                                                      *)
(***************************************************************************)
Rule(pat, cost) == [pattern |-> pat, cost |-> cost]

\* _COST_RULES: (pattern, cost) in the order of the source; the first match wins
_COST_RULES ==
    << \* High cost
       Rule(<< B, L(<<"t","r","a","i","n">>), B >>, "high"),
       Rule(<< B, L(<<"c","o","m","p","i","l">>), Alt({ <<"e">>, <<"i","n","g">> }), B >>, "high"),
       Rule(<< B, L(<<"b","u","i","l","d">>), B, ANY, B, L(<<"d","o","c","k","e","r">>), B >>, "high"),
       Rule(<< B, L(<<"d","o","c","k","e","r">>), WS1, L(<<"b","u","i","l","d">>), B >>, "high"),
       Rule(<< B, L(<<"m","a","k","e">>), B, ANY, B, L(<<"a","l","l">>), B >>, "high"),
       Rule(<< B, L(<<"h","e","a","v","y">>), B >>, "high"),
       Rule(<< B, L(<<"m","o","d","e","l">>), B, ANY, B,
               Alt({ <<"r","u","n">>, <<"l","o","a","d">>, <<"t","r","a","i","n">> }), B >>, "high"),
       Rule(<< B, L(<<"f","f","m","p","e","g">>), B >>, "high"),
       Rule(<< B, L(<<"b","l","e","n","d","e","r">>), B >>, "high"),
       Rule(<< B, L(<<"c","u","d","a">>), B >>, "high"),
       \* Medium cost
       Rule(<< B, L(<<"p","i","p">>), WS1, L(<<"i","n","s","t","a","l","l">>), B >>, "medium"),
       Rule(<< B, L(<<"n","p","m">>), WS1, L(<<"i","n","s","t","a","l","l">>), B >>, "medium"),
       Rule(<< B, L(<<"g","i","t">>), WS1,
               Alt({ <<"c","l","o","n","e">>, <<"p","u","l","l">> }), B >>, "medium"),
       Rule(<< B, L(<<"w","g","e","t">>), B >>, "medium"),
       Rule(<< B, L(<<"c","u","r","l">>), B, ANY, B, L(<<"-","o">>), B >>, "medium"),
       Rule(<< B, L(<<"d","o","c","k","e","r">>), B >>, "medium"),
       Rule(<< B, L(<<"t","a","r">>), B >>, "medium"),
       Rule(<< B, L(<<"z","i","p">>), B >>, "medium"),
       Rule(<< B, L(<<"u","n","z","i","p">>), B >>, "medium"),
       Rule(<< B, L(<<"c","p">>), WS1, L(<<"-","r">>), B >>, "medium") >>

IsMedium(r) == r.cost = "medium"
IsHigh(r) == r.cost = "high"

\* the compiled table with the medium-cost rules moved to the front
COST_PATTERNS_medium_first ==
    SelectSeq(_COST_RULES, IsMedium) \o SelectSeq(_COST_RULES, IsHigh)

\* [(re.compile(pat, re.IGNORECASE), cost) for pat, cost in _COST_RULES]
_COST_PATTERNS == [k \in DOMAIN _COST_RULES |-> _COST_RULES[k]]

\* _COST_LEVELS.get(x, 0)
_COST_LEVELS == [low |-> 0, medium |-> 1, high |-> 2]
CostLevel(x) == IF x \in DOMAIN _COST_LEVELS THEN _COST_LEVELS[x] ELSE 0

\* for pattern, cost in _COST_PATTERNS, from rule k on: the first match wins
RECURSIVE FirstMatch(_, _, _)
FirstMatch(rules, k, combined) ==
    IF k > Len(rules) THEN "low"
    ELSE IF Search(rules[k].pattern, combined) THEN rules[k].cost
    ELSE FirstMatch(rules, k + 1, combined)

\* estimate_cost that scans the command alone
estimate_cost_command_only(instruction, command) ==
    FirstMatch(_COST_PATTERNS, 1, command)

\* combined = f"{instruction} {command}", then the first rule that matches
estimate_cost_search(instruction, command) ==
    FirstMatch(_COST_PATTERNS, 1, instruction \o <<" ">> \o command)

\* estimate_cost is pure: on the texts of the running system it is computed
\* once
RECURSIVE estimate_cost_on(_)
estimate_cost_on(texts) ==
    LET t == CHOOSE x \in texts : TRUE
        known == t :> estimate_cost_search(t[1], t[2])
    IN  IF texts = { t } THEN known
        ELSE known @@ estimate_cost_on(texts \ { t })

estimate_cost_known == estimate_cost_on(RequestInstructions \X GeneratedCommands)

estimate_cost(instruction, command) ==
    IF << instruction, command >> \in DOMAIN estimate_cost_known
    THEN estimate_cost_known[<< instruction, command >>]
    ELSE estimate_cost_search(instruction, command)

\* the reason texts of decide
MsgDangerous ==
    "Command classified as dangerous - always blocked."
MsgSafeMode ==
    "Safe mode is active. Only '%s' cost tasks allowed, but this task is '%s'."
MsgStressedModerate ==
    "System is under stress and command is moderate-risk. Permission required."
MsgHighCostStressed ==
    "System is under stress and this is a high-cost task. Recommend switching to idle or unloading current tasks before proceeding."
MsgModerateConfig ==
    "Command is moderate-risk. Permission required per configuration."
MsgCaution ==
    "System is under stress, but this is a low-impact task. Proceeding with caution."
MsgAdequate ==
    "Task is safe and system resources are adequate."

Reason(msg, a) == [msg |-> msg, args |-> a]

Decision(action, reason, cost, mode) ==
    [action |-> action, reason |-> reason, estimated_cost |-> cost,
     suggested_mode |-> mode]

is_safe_mode == safe_mode

\* the dangerous tier misspelt
IsDangerous_misspelt(risk_level) == risk_level = "danger"

\* if risk_level == "dangerous"
IsDangerous(risk_level) == risk_level = "dangerous"

\* safe mode that blocks high-cost tasks only, whatever the configured maximum
SafeModeBlocks_high_only(cost, cfg) == is_safe_mode /\ cost = "high"

\* if is_safe_mode(): ... if task_cost > max_allowed
SafeModeBlocks(cost, cfg) ==
    /\ is_safe_mode
    /\ LET max_allowed == CostLevel(cfg.safe_mode_max_cost)
           task_cost == CostLevel(cost)
       IN  task_cost > max_allowed

\* the stressed-moderate test made only after the high-cost test
StressedModerate_after_high_cost(cost, is_stressed, risk_level) ==
    is_stressed /\ risk_level = "moderate" /\ cost # "high"

\* if is_stressed and risk_level == "moderate"
StressedModerate(cost, is_stressed, risk_level) ==
    is_stressed /\ risk_level = "moderate"

\* if cost == "high" and is_stressed
HighCostStressed(cost, is_stressed) == cost = "high" /\ is_stressed

\* if risk_level == "moderate" and settings.ask_permission_for_moderate
ModerateNeedsPermission(risk_level, cfg) ==
    risk_level = "moderate" /\ cfg.ask_permission_for_moderate

decide(instruction, command, risk_level, is_stressed, cfg) ==
    LET cost == estimate_cost(instruction, command)
    IN  IF IsDangerous(risk_level)
        THEN Decision("reject",
                      Reason(MsgDangerous, <<>>),
                      cost, None)
        ELSE IF SafeModeBlocks(cost, cfg)
        THEN Decision("reject",
                      Reason(MsgSafeMode,
                             << cfg.safe_mode_max_cost, cost >>),
                      cost, None)
        ELSE IF StressedModerate(cost, is_stressed, risk_level)
        THEN Decision("ask_permission",
                      Reason(MsgStressedModerate, <<>>),
                      cost, None)
        ELSE IF HighCostStressed(cost, is_stressed)
        THEN Decision("switch_mode",
                      Reason(MsgHighCostStressed, <<>>),
                      cost, "idle")
        ELSE IF ModerateNeedsPermission(risk_level, cfg)
        THEN Decision("ask_permission",
                      Reason(MsgModerateConfig, <<>>),
                      cost, None)
        ELSE IF is_stressed
        THEN Decision("execute",
                      Reason(MsgCaution, <<>>),
                      cost, None)
        ELSE Decision("execute",
                      Reason(MsgAdequate, <<>>),
                      cost, None)

(***************************************************************************)
(* state_manager.py                                                        *)
(***************************************************************************)
\* an optional number: absent (None) or present
Absent == <<>>
Some(x) == << x >>

VALID_MODES == { "idle", "monitor", "coding", "voice", "heavy" }
HEAVY_MODES == { "voice", "heavy" }

SecondsPerMinute == 60
RamFloorMb == 500
MbPerGb == 1024

\* SystemState(): the dataclass defaults, created at time t
NewSystemState(t) ==
    [ mode |-> "idle",
      cpu_percent |-> 0,
      ram_available_mb |-> 0,
      gpu_utilization |-> Absent,
      cpu_high_since |-> Absent,
      loaded_models |-> {},
      last_activity |-> t,
      monitoring_frequency |-> "normal",
      previous_mode |-> "idle" ]

\* SystemState.touch
touch(s, t) == [s EXCEPT !.last_activity = t]

\* refresh without the else branch: a probe without GPU data leaves the last
\* GPU value in place
\* refresh that has written its first field only
refresh_stops_after_cpu(s, status) ==
    [s EXCEPT !.cpu_percent = status.cpu_percent]

refresh_keeps_last_gpu(s, status) ==
    [s EXCEPT !.cpu_percent = status.cpu_percent,
              !.ram_available_mb = (status.ram.total_gb - status.ram.used_gb) * MbPerGb,
              !.gpu_utilization = IF status.gpu # Absent
                                  THEN Some(status.gpu[1].utilization_percent)
                                  ELSE @]

\* SystemState.refresh, once get_system_status has returned status
refresh(s, status) ==
    [s EXCEPT !.cpu_percent = status.cpu_percent,
              !.ram_available_mb = (status.ram.total_gb - status.ram.used_gb) * MbPerGb,
              !.gpu_utilization = IF status.gpu # Absent
                                  THEN Some(status.gpu[1].utilization_percent)
                                  ELSE Absent]

\* switch_mode that records the activity before it validates the mode
\* switch_mode without the membership test
switch_mode_unvalidated(s, new_mode, t) ==
    LET old == s.mode
        s1 == IF new_mode = "idle" /\ old # "idle"
              THEN [s EXCEPT !.previous_mode = old] ELSE s
        s2 == touch([s1 EXCEPT !.mode = new_mode], t)
        s3 == IF new_mode = "idle"
              THEN [s2 EXCEPT !.monitoring_frequency = "reduced"]
              ELSE IF s2.monitoring_frequency = "reduced"
              THEN [s2 EXCEPT !.monitoring_frequency = "normal"]
              ELSE s2
    IN  << s3, [status |-> "ok", previous_mode |-> old, current_mode |-> new_mode] >>

switch_mode_touches_before_validating(s, new_mode, t) ==
    IF new_mode \notin VALID_MODES
    THEN << touch(s, t), [status |-> "error"] >>
    ELSE LET old == s.mode
             s1 == IF new_mode = "idle" /\ old # "idle"
                   THEN [s EXCEPT !.previous_mode = old] ELSE s
             s2 == touch([s1 EXCEPT !.mode = new_mode], t)
             s3 == IF new_mode = "idle"
                   THEN [s2 EXCEPT !.monitoring_frequency = "reduced"]
                   ELSE IF s2.monitoring_frequency = "reduced"
                   THEN [s2 EXCEPT !.monitoring_frequency = "normal"]
                   ELSE s2
         IN  << s3, [status |-> "ok", previous_mode |-> old, current_mode |-> new_mode] >>

\* switch_mode that saves the outgoing mode on every entry into idle, also
\* when the outgoing mode is idle
switch_mode_saves_idle(s, new_mode, t) ==
    IF new_mode \notin VALID_MODES
    THEN << s, [status |-> "error"] >>
    ELSE LET old == s.mode
             s1 == IF new_mode = "idle"
                   THEN [s EXCEPT !.previous_mode = old] ELSE s
             s2 == touch([s1 EXCEPT !.mode = new_mode], t)
             s3 == IF new_mode = "idle"
                   THEN [s2 EXCEPT !.monitoring_frequency = "reduced"]
                   ELSE IF s2.monitoring_frequency = "reduced"
                   THEN [s2 EXCEPT !.monitoring_frequency = "normal"]
                   ELSE s2
         IN  << s3, [status |-> "ok", previous_mode |-> old, current_mode |-> new_mode] >>

\* SystemState.switch_mode: << the state after, the dict returned >>
switch_mode(s, new_mode, t) ==
    IF new_mode \notin VALID_MODES
    THEN << s, [status |-> "error"] >>
    ELSE LET old == s.mode
             s1 == IF new_mode = "idle" /\ old # "idle"
                   THEN [s EXCEPT !.previous_mode = old] ELSE s
             s2 == touch([s1 EXCEPT !.mode = new_mode], t)
             s3 == IF new_mode = "idle"
                   THEN [s2 EXCEPT !.monitoring_frequency = "reduced"]
                   ELSE IF s2.monitoring_frequency = "reduced"
                   THEN [s2 EXCEPT !.monitoring_frequency = "normal"]
                   ELSE s2
         IN  << s3, [status |-> "ok", previous_mode |-> old, current_mode |-> new_mode] >>

\* wake that restores the remembered mode whatever the current mode
wake_from_any_mode(s, t) ==
    IF s.previous_mode # "idle"
    THEN switch_mode(s, s.previous_mode, t)
    ELSE << s, [status |-> "already_active", mode |-> s.mode] >>

\* SystemState.wake: << the state after, the dict returned >>
wake(s, t) ==
    IF s.mode = "idle" /\ s.previous_mode # "idle"
    THEN switch_mode(s, s.previous_mode, t)
    ELSE << s, [status |-> "already_active", mode |-> s.mode] >>

\* check_idle that fires only after the timeout has been exceeded
check_idle_after_timeout(s, idle_timeout_minutes, t) ==
    IF s.mode = "idle" THEN << s, FALSE >>
    ELSE LET elapsed == t - s.last_activity
         IN  IF elapsed > idle_timeout_minutes * SecondsPerMinute
             THEN << switch_mode(s, "idle", t)[1], TRUE >>
             ELSE << s, FALSE >>

\* SystemState.check_idle: << the state after, the bool returned >>
check_idle(s, idle_timeout_minutes, t) ==
    IF s.mode = "idle" THEN << s, FALSE >>
    ELSE LET elapsed == t - s.last_activity
         IN  IF elapsed >= idle_timeout_minutes * SecondsPerMinute
             THEN << switch_mode(s, "idle", t)[1], TRUE >>
             ELSE << s, FALSE >>

\* the CPU branch of is_system_stressed at time t: << _cpu_high_since after,
\* cpu_stressed >>
CpuBranch(s, cfg, t) ==
    IF s.cpu_percent > cfg.cpu_threshold
    THEN IF s.cpu_high_since = Absent
         THEN << Some(t), FALSE >>
         ELSE IF t - s.cpu_high_since[1] >= cfg.stress_cpu_duration_seconds
         THEN << s.cpu_high_since, TRUE >>
         ELSE << s.cpu_high_since, FALSE >>
    ELSE << Absent, FALSE >>

\* is_system_stressed whose result leaves the GPU branch out
is_system_stressed_without_gpu(s, cfg, t) ==
    LET cpu == CpuBranch(s, cfg, t)
        cpu_stressed == cpu[2]
        ram_stressed == s.ram_available_mb < RamFloorMb
        gpu_stressed == /\ s.gpu_utilization # Absent
                        /\ s.gpu_utilization[1] > cfg.gpu_threshold
        stressed == cpu_stressed \/ ram_stressed
    IN  [ st |-> [s EXCEPT !.cpu_high_since = cpu[1]],
          cpu_stressed |-> cpu_stressed,
          ram_stressed |-> ram_stressed,
          gpu_stressed |-> gpu_stressed,
          stressed |-> stressed,
          reasons |-> IF stressed
                      THEN (IF cpu_stressed THEN {"CPU"} ELSE {})
                           \cup (IF ram_stressed THEN {"RAM"} ELSE {})
                           \cup (IF gpu_stressed THEN {"GPU"} ELSE {})
                      ELSE {} ]

\* SystemState.is_system_stressed at time t: the state after (the stress window
\* is written), the three branches, the bool returned and the reasons logged
is_system_stressed(s, cfg, t) ==
    LET cpu == CpuBranch(s, cfg, t)
        cpu_stressed == cpu[2]
        ram_stressed == s.ram_available_mb < RamFloorMb
        gpu_stressed == /\ s.gpu_utilization # Absent
                        /\ s.gpu_utilization[1] > cfg.gpu_threshold
        stressed == cpu_stressed \/ ram_stressed \/ gpu_stressed
    IN  [ st |-> [s EXCEPT !.cpu_high_since = cpu[1]],
          cpu_stressed |-> cpu_stressed,
          ram_stressed |-> ram_stressed,
          gpu_stressed |-> gpu_stressed,
          stressed |-> stressed,
          reasons |-> IF stressed
                      THEN (IF cpu_stressed THEN {"CPU"} ELSE {})
                           \cup (IF ram_stressed THEN {"RAM"} ELSE {})
                           \cup (IF gpu_stressed THEN {"GPU"} ELSE {})
                      ELSE {} ]

(***************************************************************************)
(* reflection_engine.py, memory_manager.py                                 *)
(***************************************************************************)
FailureKinds == { "failure", "blocked", "timeout" }
FailureWindowMinutes == 60

\* db.insert("resource_events", event_type, details, timestamp)
InsertEvent(rows, event_type, t) ==
    rows (+) SetToBag({ [event_type |-> event_type, timestamp |-> t] })

\* get_failure_count(window_minutes) at time t: SELECT COUNT(*) ... WHERE
\* event_type IN ('failure', 'blocked', 'timeout') AND timestamp >= cutoff
get_failure_count_counts_denied(rows, window_minutes, t) ==
    LET cutoff == t - window_minutes * SecondsPerMinute
        hits == { r \in BagToSet(rows) :
                    /\ r.event_type \in FailureKinds \cup { "permission_denied" }
                    /\ r.timestamp >= cutoff }
    IN  BagCardinality([r \in hits |-> rows[r]])

get_failure_count(rows, window_minutes, t) ==
    LET cutoff == t - window_minutes * SecondsPerMinute
        hits == { r \in BagToSet(rows) :
                    r.event_type \in FailureKinds /\ r.timestamp >= cutoff }
    IN  BagCardinality([r \in hits |-> rows[r]])

\* set_safe_mode(enabled): << _safe_mode after, the dict returned >>
set_safe_mode_reports_new_value(flag, enabled) ==
    << enabled, [status |-> "ok", safe_mode |-> enabled, previous |-> enabled] >>

set_safe_mode(flag, enabled) ==
    << enabled, [status |-> "ok", safe_mode |-> enabled, previous |-> flag] >>

\* should_enter_safe_mode that does not look at the flag
should_enter_safe_mode_whatever_the_flag(flag, count, threshold) ==
    IF count >= threshold
    THEN << TRUE, TRUE >>
    ELSE << flag, FALSE >>

\* should_enter_safe_mode that lets the flag follow the count
should_enter_safe_mode_follows_count(flag, count, threshold) ==
    IF count >= threshold /\ ~flag
    THEN << TRUE, TRUE >>
    ELSE << flag /\ count >= threshold, FALSE >>

\* should_enter_safe_mode(threshold), once get_failure_count has returned
\* count: << _safe_mode after, the bool returned >>
should_enter_safe_mode(flag, count, threshold) ==
    IF count >= threshold /\ ~flag
    THEN << TRUE, TRUE >>
    ELSE << flag, FALSE >>

(***************************************************************************)
(* model_controller.py                                                     *)
(***************************************************************************)
\* ModelRecord(name) created at time t
ModelRecord(t) == [loaded_at |-> t, last_used |-> t]

load_model_replaces_record(m, name, t) ==
    << [n \in DOMAIN m \cup {name} |-> IF n = name THEN ModelRecord(t) ELSE m[n]],
       IF name \in DOMAIN m THEN "already_loaded" ELSE "loaded" >>

\* ModelController.load_model: << _models after, status >>
load_model(m, name, t) ==
    IF name \in DOMAIN m
    THEN << [m EXCEPT ![name].last_used = t], "already_loaded" >>
    ELSE << [n \in DOMAIN m \cup {name} |-> IF n = name THEN ModelRecord(t) ELSE m[n]],
            "loaded" >>

\* ModelController.unload_model: << _models after, status >>
unload_model(m, name) ==
    IF name \notin DOMAIN m
    THEN << m, "not_loaded" >>
    ELSE << [n \in DOMAIN m \ {name} |-> m[n]], "unloaded" >>

touch_model_registers(m, name, t) ==
    [n \in DOMAIN m \cup {name} |->
        IF n \in DOMAIN m THEN [m[n] EXCEPT !.last_used = t] ELSE ModelRecord(t)]

\* ModelController.touch_model
touch_model(m, name, t) ==
    IF name \in DOMAIN m THEN [m EXCEPT ![name].last_used = t] ELSE m

auto_unload_check_by_load_time(m, timeout_minutes, t) ==
    LET cutoff == timeout_minutes * SecondsPerMinute
        stale == { name \in DOMAIN m : (t - m[name].loaded_at) >= cutoff }
    IN  << [n \in DOMAIN m \ stale |-> m[n]], stale >>

\* ModelController.auto_unload_check: << _models after, the names unloaded >>
auto_unload_check(m, timeout_minutes, t) ==
    LET cutoff == timeout_minutes * SecondsPerMinute
        stale == { name \in DOMAIN m : (t - m[name].last_used) >= cutoff }
    IN  << [n \in DOMAIN m \ stale |-> m[n]], stale >>

\* the names of ModelController.get_active_models
ActiveModelNames(m) == DOMAIN m

\* ModelController.get_active_models: one entry for each record
get_active_models(m, t) ==
    { [ name |-> n,
        loaded_seconds_ago |-> t - m[n].loaded_at,
        last_used_seconds_ago |-> t - m[n].last_used ] : n \in DOMAIN m }

(***************************************************************************)
(* Inputs                                                                  *)
(***************************************************************************)
Instructions == { I_train, I_list, I_install, I_compile }
Commands == { C_ls, C_pip, C_python, C_rm, C_docker, C_sudo, C_tar, C_format }

\* the pieces commands are put together from when the classifier is called
ClassifyFrags ==
    { <<"r","m">>, <<"R","m">>, <<"c","p">>, <<"d","d">>, <<"f","o">>, <<"a","t">>,
      <<"x">>, <<" ">>, <<"-">>, <<"_">> }

\* the pieces texts are put together from when the cost estimate is called
CostFrags ==
    { <<"d","o","c","k","e","r">>, <<"b","u","i","l","d">>, <<"p","i","p">>,
      <<"i","n","s","t","a","l","l">>, <<"t","r","a","i","n">>, <<"T","a","r">>,
      <<"x">>, <<" ">> }

MaxCmdFrags == 3
MaxCostFrags == 2
MaxInstrFrags == 1

\* every text made of at most n pieces of F
RECURSIVE Concats(_, _)
Concats(F, n) ==
    IF n = 0 THEN { <<>> }
    ELSE LET S == Concats(F, n - 1) IN S \cup { s \o f : s \in S, f \in F }

RiskTiers == { "safe", "moderate", "dangerous" }
CostClasses == { "low", "medium", "high" }
Actions == { "execute", "delay", "ask_permission", "reject", "switch_mode" }

DefaultModel == "openai/gpt-4o-mini"

\* config_loader.Settings with the defaults of the source
DefaultSettings ==
    [ cpu_threshold |-> 85,
      gpu_threshold |-> 90,
      ask_permission_for_moderate |-> TRUE,
      openrouter_model |-> DefaultModel,
      idle_timeout_minutes |-> 5,
      stress_cpu_duration_seconds |-> 300,
      auto_unload |-> TRUE,
      model_unload_timeout_minutes |-> 10,
      pattern_analysis_interval |-> 300,
      proactive_interval |-> 600,
      reflection_failure_threshold |-> 5,
      safe_mode_max_cost |-> "low",
      background_loop_interval |-> 30 ]

\* a config.yaml whose times are short enough for the bounded clock to reach
\* them; the clock moves a minute at a time
ShortSettings ==
    [ DefaultSettings EXCEPT
        !.idle_timeout_minutes = 1,
        !.stress_cpu_duration_seconds = SecondsPerMinute,
        !.model_unload_timeout_minutes = 1,
        !.pattern_analysis_interval = 2 * SecondsPerMinute,
        !.proactive_interval = 2 * SecondsPerMinute,
        !.reflection_failure_threshold = 2,
        !.background_loop_interval = SecondsPerMinute ]

\* what get_system_status returns: the three readings refresh looks at
Status(cpu, total_gb, used_gb, gpu) ==
    [ cpu_percent |-> cpu,
      ram |-> [total_gb |-> total_gb, used_gb |-> used_gb],
      gpu |-> gpu ]

Gpu(utilization) == Some([utilization_percent |-> utilization])

\* monitor._get_gpu_info: what the run of nvidia-smi ends in.  Only a run that
\* returns 0 and prints its five fields yields the dict; no nvidia-smi, a
\* non-zero return code, a timeout and a short or unparsable line yield None.
GpuProbes ==
    { [kind |-> k] : k \in { "not_found", "failed", "timeout", "short_output" } }
    \cup { [kind |-> "ok", utilization_percent |-> u] : u \in { 0, 95 } }

_get_gpu_info(probe) ==
    IF probe.kind = "ok" THEN Gpu(probe.utilization_percent) ELSE Absent

\* a calm machine without GPU, one with the CPU above the threshold, and one
\* short of RAM whose GPU is above the threshold
ProbeStatuses ==
    { Status(50, 8, 4, Absent), Status(90, 8, 4, Absent), Status(50, 8, 8, Gpu(95)) }

MaxRequests == 2
MaxTicks == 1
MaxEvents == 2

Requests == 1..MaxRequests

CallArgs(fn, instruction, command, risk_level, is_stressed) ==
    [ fn |-> fn, instruction |-> instruction, command |-> command,
      risk_level |-> risk_level, is_stressed |-> is_stressed ]

NoCall == CallArgs(None, <<>>, <<>>, None, FALSE)
NoReturn == [fn |-> None]

sysvars == << now, st, models, events, sched, req, hist >>
vars == << now, st, safe_mode, settings, models, events, sched, req, hist, args, ret >>

(***************************************************************************)
(* The process as constructed: module globals before lifespan has run      *)
(***************************************************************************)
\* ModelController(): no model loaded
NoModels == [n \in {} |-> ModelRecord(0)]

NoDecision == Decision(None, Reason(None, <<>>), None, None)

\* an /execute request that has not arrived yet.  Of the locals of
\* execute_instruction a request holds those it still reads: the texts up to
\* decide, then the tier, the decision and the status it will return.
\* gate_safe_mode is history: the flag decide read for a command that runs.
NewRequest ==
    [ pc |-> "new", instruction |-> <<>>, command |-> <<>>, risk_level |-> None,
      decision |-> NoDecision, ran |-> FALSE, status |-> None,
      gate_safe_mode |-> Absent ]

\* autonomous_loop before create_task: last_pattern_scan and last_proactive_run
\* are 0.0, the year 1970, which is absent here: the first tick is always due
NewScheduler ==
    [ pc |-> "not_started", now |-> 0, wake_at |-> 0,
      last_pattern_scan |-> Absent, last_proactive_run |-> Absent ]

\* history: since when the reading is above the threshold, the last stress
\* evaluation, the mode that was left when idle was last entered, how often
\* the breaker has tripped since safe mode was last switched off, when a tick
\* last ended in the handler of the loop, and the await the cancellation of
\* the scheduler task was thrown into
NewHistory ==
    [ cpu_over_since |-> Absent, last_eval |-> Absent, left_mode |-> Absent,
      trips |-> 0, tick_failed_at |-> Absent, cancelled_in |-> None ]

Constructed ==
    /\ now = 0
    /\ st = NewSystemState(0)
    /\ models = NoModels
    /\ events = EmptyBag
    /\ sched = NewScheduler
    /\ req = [r \in Requests |-> NewRequest]
    /\ hist = NewHistory

(***************************************************************************)
(* Direct calls of the pure functions                                      *)
(***************************************************************************)
InitClassify ==
    /\ Constructed
    /\ safe_mode = FALSE
    /\ settings = DefaultSettings
    /\ args \in { CallArgs("classify_command", <<>>, c, None, FALSE) :
                    c \in Concats(ClassifyFrags, MaxCmdFrags) }
    /\ ret = NoReturn

CallClassify ==
    /\ args.fn = "classify_command"
    /\ ret = NoReturn
    /\ ret' = [fn |-> "classify_command", value |-> classify_command(args.command)]
    /\ UNCHANGED << safe_mode, settings, args, sysvars >>

SpecClassify == InitClassify /\ [][CallClassify]_vars

InitCost ==
    /\ Constructed
    /\ safe_mode = FALSE
    /\ settings = DefaultSettings
    /\ args \in { CallArgs("estimate_cost", i, c, None, FALSE) :
                    i \in Concats(CostFrags, MaxInstrFrags),
                    c \in Concats(CostFrags, MaxCostFrags) }
    /\ ret = NoReturn

CallEstimateCost ==
    /\ args.fn = "estimate_cost"
    /\ ret = NoReturn
    /\ ret' = [fn |-> "estimate_cost",
               value |-> estimate_cost(args.instruction, args.command)]
    /\ UNCHANGED << safe_mode, settings, args, sysvars >>

SpecCost == InitCost /\ [][CallEstimateCost]_vars

\* decide is called with any risk tier, also one that is no tier ("unknown"),
\* or, as execute_instruction calls it, with the tier of classify_command (None
\* here); safe_mode_max_cost may be no cost class ("extreme")
InitDecide ==
    /\ Constructed
    /\ safe_mode \in BOOLEAN
    /\ settings \in { [DefaultSettings EXCEPT !.safe_mode_max_cost = m,
                                              !.ask_permission_for_moderate = a] :
                        m \in CostClasses \cup {"extreme"}, a \in BOOLEAN }
    /\ args \in { CallArgs("decide", i, c, r, s) :
                    i \in Instructions, c \in Commands,
                    r \in RiskTiers \cup {"unknown", None}, s \in BOOLEAN }
    /\ ret = NoReturn

CallDecide ==
    /\ args.fn = "decide"
    /\ ret = NoReturn
    /\ LET risk_level == IF args.risk_level = None
                         THEN classify_command(args.command)
                         ELSE args.risk_level
       IN  ret' = [fn |-> "decide",
                   risk_level |-> risk_level,
                   value |-> decide(args.instruction, args.command, risk_level,
                                    args.is_stressed, settings)]
    /\ UNCHANGED << safe_mode, settings, args, sysvars >>

SpecDecide == InitDecide /\ [][CallDecide]_vars

(***************************************************************************)
(* The running system: main.py, executor.py, scheduler.py                  *)
(*                                                                         *)
(* asyncio runs one coroutine at a time and a coroutine gives way only at  *)
(* an await, so an action is the code between one await and the next, and  *)
(* pc names the await a coroutine is suspended at.  The clock moves a      *)
(* minute at a time: the probe and the database answer within the minute,  *)
(* so time passes only while the scheduler sleeps and the requests wait    *)
(* for the language model or for their command.                            *)
(***************************************************************************)
\* history: since when the CPU reading held by SystemState is above the
\* threshold (s is the state after a refresh)
NoteRefresh(h, s) ==
    [h EXCEPT !.cpu_over_since =
        IF s.cpu_percent > settings.cpu_threshold
        THEN (IF @ = Absent THEN Some(now) ELSE @)
        ELSE Absent]

\* history: the evaluation e of is_system_stressed made on state s, and for
\* how long the CPU reading had been above the threshold then
NoteEval(h, s, e) ==
    [h EXCEPT !.last_eval =
        Some([ cpu_high |-> s.cpu_percent > settings.cpu_threshold,
               high_for |-> IF h.cpu_over_since = Absent THEN Absent
                            ELSE Some(now - h.cpu_over_since[1]),
               cpu_stressed |-> e.cpu_stressed ])]

\* what a synchronous stretch of code works on
World == [st |-> st, sched |-> sched, models |-> models, hist |-> hist]

Becomes(w) ==
    /\ st' = w.st
    /\ sched' = w.sched
    /\ models' = w.models
    /\ hist' = w.hist

\* state.refresh() resumed with the status the probe returned
Refreshed(w, status) ==
    LET s == refresh(w.st, status)
    IN  [w EXCEPT !.st = s, !.hist = NoteRefresh(w.hist, s)]

\* state.is_system_stressed(settings): the world after, and the bool returned
Evaluate(w) ==
    LET e == is_system_stressed(w.st, settings, now)
    IN  [ w |-> [w EXCEPT !.st = e.st, !.hist = NoteEval(w.hist, w.st, e)],
          stressed |-> e.stressed ]

(***************************************************************************)
(* scheduler.py: autonomous_loop, one tick                                 *)
(***************************************************************************)
\* the scheduler suspends at the await named pc
AtAwait(w, pc) == [w EXCEPT !.sched.pc = pc]

\* while True: await asyncio.sleep(interval); the local now is read again
\* after the sleep
EndOfTick(w) ==
    AtAwait([w EXCEPT !.sched.wake_at = now + settings.background_loop_interval,
                      !.sched.now = 0],
            "sleep")

\* 9. await should_enter_safe_mode(...): await get_failure_count(60)
ReflectionCheck(w) == AtAwait(w, "failure_count")

\* _self_optimise that restores the cadence whatever the mode
_self_optimise_restores_in_idle(w) ==
    LET ev == Evaluate(w)
        s == ev.w.st
    IN  IF ev.stressed /\ s.monitoring_frequency = "normal"
        THEN AtAwait([ev.w EXCEPT !.st.monitoring_frequency = "reduced"],
                     "optimization_log")
        ELSE IF ~ev.stressed /\ s.monitoring_frequency = "reduced"
        THEN AtAwait([ev.w EXCEPT !.st.monitoring_frequency = "normal"],
                     "optimization_log")
        ELSE ReflectionCheck(ev.w)

\* 8. _self_optimise, up to its await or its end
_self_optimise(w) ==
    LET ev == Evaluate(w)
        s == ev.w.st
    IN  IF ev.stressed /\ s.monitoring_frequency = "normal"
        THEN AtAwait([ev.w EXCEPT !.st.monitoring_frequency = "reduced"],
                     "optimization_log")
        ELSE IF ~ev.stressed /\ s.monitoring_frequency = "reduced" /\ s.mode # "idle"
        THEN AtAwait([ev.w EXCEPT !.st.monitoring_frequency = "normal"],
                     "optimization_log")
        ELSE ReflectionCheck(ev.w)

\* 7. await memory_manager.auto_summarise(...)
AutoSummarise(w) == AtAwait(w, "auto_summarise")

\* 6. auto-unload of stale models
AutoUnload(w) ==
    IF settings.auto_unload
    THEN LET r == auto_unload_check(w.models, settings.model_unload_timeout_minutes, now)
             unloaded == r[2]
         IN  AutoSummarise([w EXCEPT !.models = r[1],
                                     !.st.loaded_models =
                                         IF unloaded # {} THEN ActiveModelNames(r[1]) ELSE @])
    ELSE AutoSummarise(w)

\* the throttle: now - last >= interval, with last = 0.0 before the first run
Due(last, interval, t) == last = Absent \/ t - last[1] >= interval

\* 5. proactive suggestions: generate_suggestions evaluates the stress before
\* its first await
ProactiveSuggestions(w) ==
    IF Due(w.sched.last_proactive_run, settings.proactive_interval, w.sched.now)
    THEN AtAwait([Evaluate(w).w EXCEPT !.sched.last_proactive_run = Some(w.sched.now)],
                 "generate_suggestions")
    ELSE AutoUnload(w)

\* 4. pattern analysis
PatternAnalysis(w) ==
    IF Due(w.sched.last_pattern_scan, settings.pattern_analysis_interval, w.sched.now)
    THEN AtAwait([w EXCEPT !.sched.last_pattern_scan = Some(w.sched.now)],
                 "analyze_patterns")
    ELSE ProactiveSuggestions(w)

\* 3. stress detection
StressDetection(w) ==
    LET ev == Evaluate(w)
    IN  IF ev.stressed THEN AtAwait(ev.w, "store_stress") ELSE PatternAnalysis(ev.w)

\* a step 2 that leaves the switch to the time after the idle_switch event
\* has been stored
IdleTimeout_switches_after_storing(w) ==
    LET c == check_idle(w.st, settings.idle_timeout_minutes, now)
        was_idle == c[2]
    IN  IF was_idle
        THEN AtAwait(w, "store_idle_switch")
        ELSE StressDetection(w)

\* 2. idle timeout
IdleTimeout(w) ==
    LET c == check_idle(w.st, settings.idle_timeout_minutes, now)
        was_idle == c[2]
    IN  IF was_idle
        THEN AtAwait([w EXCEPT !.st = [c[1] EXCEPT !.monitoring_frequency = "reduced"]],
                     "store_idle_switch")
        ELSE StressDetection(w)

\* lifespan: the default model is loaded and the first refresh awaited
Startup ==
    /\ sched.pc = "not_started"
    /\ models' = load_model(models, settings.openrouter_model, now)[1]
    /\ sched' = [sched EXCEPT !.pc = "startup_refresh"]
    /\ UNCHANGED << now, st, safe_mode, settings, events, req, hist, args, ret >>

\* lifespan: the first refresh returns and the scheduler task is created
StartupRefreshed ==
    /\ sched.pc = "startup_refresh"
    /\ \E status \in ProbeStatuses :
         Becomes(EndOfTick(Refreshed(World, status)))
    /\ UNCHANGED << now, safe_mode, settings, events, req, args, ret >>

\* the awaits that take their time: the sleep of the scheduler, which ends on
\* time, the call of the language model, the command
TimePasses ==
    /\ sched.pc = "sleep"
    /\ now < sched.wake_at
    /\ \A r \in Requests :
         req[r].pc \in { "new", "generate_command", "run_command", "done" }

\* a minute passes
Tick ==
    /\ TimePasses
    /\ now < MaxTicks * SecondsPerMinute
    /\ now' = now + SecondsPerMinute
    /\ UNCHANGED << st, safe_mode, settings, models, events, sched, req, hist, args, ret >>

\* asyncio.sleep(interval) is over: now = time.time(); await state.refresh()
SchedWake ==
    /\ sched.pc = "sleep"
    /\ now >= sched.wake_at
    /\ sched' = [sched EXCEPT !.pc = "refresh", !.now = now]
    /\ UNCHANGED << now, st, safe_mode, settings, models, events, req, hist, args, ret >>

\* 1. the refresh returns; the tick runs on to its next await
SchedRefreshed ==
    /\ sched.pc = "refresh"
    /\ \E status \in ProbeStatuses :
         Becomes(IdleTimeout(Refreshed(World, status)))
    /\ UNCHANGED << now, safe_mode, settings, events, req, args, ret >>

SchedIdleSwitchStored ==
    /\ sched.pc = "store_idle_switch"
    /\ BagCardinality(events) < MaxEvents
    /\ events' = InsertEvent(events, "idle_switch", now)
    /\ Becomes(StressDetection(World))
    /\ UNCHANGED << now, safe_mode, settings, req, args, ret >>

SchedStressStored ==
    /\ sched.pc = "store_stress"
    /\ BagCardinality(events) < MaxEvents
    /\ events' = InsertEvent(events, "stress", now)
    /\ Becomes(PatternAnalysis(World))
    /\ UNCHANGED << now, safe_mode, settings, req, args, ret >>

SchedPatternsAnalyzed ==
    /\ sched.pc = "analyze_patterns"
    /\ Becomes(ProactiveSuggestions(World))
    /\ UNCHANGED << now, safe_mode, settings, events, req, args, ret >>

\* the awaits of generate_suggestions are in try blocks of their own
SchedSuggestionsGenerated ==
    /\ sched.pc = "generate_suggestions"
    /\ Becomes(AutoUnload(World))
    /\ UNCHANGED << now, safe_mode, settings, events, req, args, ret >>

SchedSummarised ==
    /\ sched.pc = "auto_summarise"
    /\ Becomes(_self_optimise(World))
    /\ UNCHANGED << now, safe_mode, settings, events, req, args, ret >>

SchedOptimisationLogged ==
    /\ sched.pc = "optimization_log"
    /\ Becomes(ReflectionCheck(World))
    /\ UNCHANGED << now, safe_mode, settings, events, req, args, ret >>

\* should_enter_safe_mode, once get_failure_count has returned
SchedFailuresCounted ==
    /\ sched.pc = "failure_count"
    /\ LET count == get_failure_count(events, FailureWindowMinutes, now)
           r == should_enter_safe_mode(safe_mode, count,
                                       settings.reflection_failure_threshold)
           tripped == r[2]
       IN  /\ safe_mode' = r[1]
           /\ Becomes(IF tripped THEN AtAwait(World, "safe_mode_log")
                                  ELSE EndOfTick(World))
    /\ UNCHANGED << now, settings, events, req, args, ret >>

SchedSafeModeLogged ==
    /\ sched.pc = "safe_mode_log"
    /\ Becomes(EndOfTick(World))
    /\ UNCHANGED << now, safe_mode, settings, events, req, args, ret >>

\* the awaits of the tick an exception can leave up to the handler of the loop
AwaitsOfTheTick ==
    { "refresh", "store_idle_switch", "store_stress", "analyze_patterns",
      "auto_summarise", "optimization_log", "failure_count", "safe_mode_log" }

\* a loop without the try block: the exception ends the task
SchedTickError_ends_the_loop ==
    /\ sched.pc \in AwaitsOfTheTick
    /\ Becomes(AtAwait([World EXCEPT !.hist.tick_failed_at = Some(now)], "crashed"))
    /\ UNCHANGED << now, safe_mode, settings, events, req, args, ret >>

\* except Exception: whatever an await of the tick raises ends the tick
SchedTickError ==
    /\ sched.pc \in AwaitsOfTheTick
    /\ Becomes(EndOfTick([World EXCEPT !.hist.tick_failed_at = Some(now)]))
    /\ UNCHANGED << now, safe_mode, settings, events, req, args, ret >>

(***************************************************************************)
(* main.py: lifespan after its yield, the shutdown                         *)
(***************************************************************************)
\* the scheduler task is alive and no cancellation is on its way
Running ==
    sched.pc \notin { "not_started", "startup_refresh", "cancel_in_sleep",
                      "cancel_in_tick", "cancelled", "crashed", "stopped" }

TickHandlerCatches_everything(exc) == TRUE

\* except Exception as exc: CancelledError derives from BaseException
TickHandlerCatches(exc) == exc = "Exception"

\* _scheduler_task.cancel(); await _scheduler_task.  The server runs the
\* shutdown of lifespan when its request handlers have returned.  The
\* CancelledError is thrown into the task at the await it is suspended in:
\* the sleep, outside the try block, or an await of the tick, inside it.
Shutdown ==
    /\ Running
    /\ \A r \in Requests : req[r].pc \in { "new", "done" }
    /\ sched' = [sched EXCEPT !.pc = IF @ = "sleep" THEN "cancel_in_sleep"
                                                    ELSE "cancel_in_tick"]
    /\ hist' = [hist EXCEPT !.cancelled_in = sched.pc]
    /\ UNCHANGED << now, st, safe_mode, settings, models, events, req, args, ret >>

\* the task resumes with the CancelledError: the handler of the tick is asked
\* when the await is inside the try block
SchedCancelled ==
    /\ sched.pc \in { "cancel_in_sleep", "cancel_in_tick" }
    /\ Becomes(IF sched.pc = "cancel_in_tick" /\ TickHandlerCatches("CancelledError")
               THEN EndOfTick(World)
               ELSE AtAwait(World, "cancelled"))
    /\ UNCHANGED << now, safe_mode, settings, events, req, args, ret >>

\* except asyncio.CancelledError: pass; await db.close_db()
LifespanStopped ==
    /\ sched.pc = "cancelled"
    /\ sched' = [sched EXCEPT !.pc = "stopped"]
    /\ UNCHANGED << now, st, safe_mode, settings, models, events, req, hist, args, ret >>

(***************************************************************************)
(* main.py: the endpoints that write the shared state                      *)
(***************************************************************************)
ServerUp == Running

\* the requests of a run are numbered in the order they arrive
Arrives(r) ==
    /\ ServerUp
    /\ req[r].pc = "new"
    /\ \A earlier \in 1..(r - 1) : req[earlier].pc # "new"

\* a handler has returned or raised: its locals are gone
Returned == [NewRequest EXCEPT !.pc = "done"]

\* the modes POST /switch-mode is called with; "gaming" is no mode
ModeRequests == { "coding", "gaming" }

\* POST /switch-mode
SwitchModeEndpoint(r) ==
    /\ Arrives(r)
    /\ \E m \in ModeRequests : st' = switch_mode(st, m, now)[1]
    /\ req' = [req EXCEPT ![r] = Returned]
    /\ UNCHANGED << now, safe_mode, settings, models, events, sched, hist, args, ret >>

\* POST /safe-mode: set_safe_mode(enabled)
SafeModeEndpoint(r) ==
    /\ Arrives(r)
    /\ \E enabled \in BOOLEAN : safe_mode' = set_safe_mode(safe_mode, enabled)[1]
    /\ req' = [req EXCEPT ![r] = Returned]
    /\ UNCHANGED << now, st, settings, models, events, sched, hist, args, ret >>

(***************************************************************************)
(* executor.py: execute_instruction                                        *)
(***************************************************************************)
StartsWithError(command) ==
    Len(command) >= 6 /\ SubSeq(command, 1, 6) = <<"E","r","r","o","r",":">>

\* only the reject and ask_permission branches return before the command
RunsCommand_no_delay_branch(decision) ==
    decision.action \notin { "reject", "ask_permission" }

\* the three early returns of execute_instruction
RunsCommand(decision) ==
    /\ decision.action # "reject"
    /\ decision.action # "ask_permission"
    /\ decision.action \notin { "delay", "switch_mode" }

\* the status execute_instruction returns when the command is not run
StatusOf(decision) ==
    IF decision.action = "reject" THEN "blocked"
    ELSE IF decision.action = "ask_permission" THEN "permission_required"
    ELSE decision.action

\* the event_type record_outcome is called with
OutcomeOf(q) ==
    IF q.status = "error" /\ ~q.ran THEN "failure"
    ELSE IF q.status = "blocked" THEN "blocked"
    ELSE IF q.status = "permission_required" THEN "permission_denied"
    ELSE IF q.status = "success" THEN "success"
    ELSE "failure"

Suspend(q, pc) == [q EXCEPT !.pc = pc]

\* POST /execute: wake, touch, then await generate_command
ReqArrives(r) ==
    /\ Arrives(r)
    /\ \E instruction \in RequestInstructions :
         req' = [req EXCEPT ![r] = Suspend([@ EXCEPT !.instruction = instruction],
                                           "generate_command")]
    /\ st' = touch(wake(st, now)[1], now)
    /\ UNCHANGED << now, safe_mode, settings, models, events, sched, hist, args, ret >>

\* generate_command returns (it raises nothing): an "Error:" text is stored as
\* a failed task, any other text is classified and the refresh awaited
ReqCommandGenerated(r) ==
    /\ req[r].pc = "generate_command"
    /\ \E command \in GeneratedCommands :
         req' = [req EXCEPT ![r] =
                   IF StartsWithError(command)
                   THEN Suspend([@ EXCEPT !.instruction = <<>>, !.status = "error"],
                                "store_task")
                   ELSE Suspend([@ EXCEPT !.command = command,
                                          !.risk_level = classify_command(command)],
                                "refresh")]
    /\ UNCHANGED << now, st, safe_mode, settings, models, events, sched, hist, args, ret >>

\* an executor that is suspended between the gate and the start of the
\* command, so that a breaker trip lands in between
ReqRefreshed_suspends_before_start(r) ==
    /\ req[r].pc = "refresh"
    /\ \E status \in ProbeStatuses :
         LET ev == Evaluate(Refreshed(World, status))
             q == req[r]
             decision == decide(q.instruction, q.command, q.risk_level,
                                ev.stressed, settings)
             q1 == [q EXCEPT !.instruction = <<>>, !.command = <<>>,
                             !.decision = decision]
         IN  IF RunsCommand(decision)
             THEN /\ Becomes([ev.w EXCEPT !.st = touch(@, now)])
                  /\ safe_mode' \in { safe_mode, TRUE }
                  /\ req' = [req EXCEPT ![r] =
                               Suspend([q1 EXCEPT !.ran = TRUE,
                                                  !.gate_safe_mode = Some(is_safe_mode)],
                                       "run_command")]
             ELSE /\ Becomes(ev.w)
                  /\ safe_mode' = safe_mode
                  /\ req' = [req EXCEPT ![r] =
                               Suspend([q1 EXCEPT !.status = StatusOf(decision)],
                                       "store_task")]
    /\ UNCHANGED << now, settings, events, args, ret >>

\* the refresh returns: stress evaluation, decide, and either an early return
\* through store_task or touch and the start of the command
ReqRefreshed(r) ==
    /\ req[r].pc = "refresh"
    /\ \E status \in ProbeStatuses :
         LET ev == Evaluate(Refreshed(World, status))
             q == req[r]
             decision == decide(q.instruction, q.command, q.risk_level,
                                ev.stressed, settings)
             q1 == [q EXCEPT !.instruction = <<>>, !.command = <<>>,
                             !.decision = decision]
         IN  IF RunsCommand(decision)
             THEN /\ Becomes([ev.w EXCEPT !.st = touch(@, now)])
                  /\ req' = [req EXCEPT ![r] =
                               Suspend([q1 EXCEPT !.ran = TRUE,
                                                  !.gate_safe_mode = Some(is_safe_mode)],
                                       "run_command")]
             ELSE /\ Becomes(ev.w)
                  /\ req' = [req EXCEPT ![r] =
                               Suspend([q1 EXCEPT !.status = StatusOf(decision)],
                                       "store_task")]
    /\ UNCHANGED << now, safe_mode, settings, events, args, ret >>

\* store_task returns on an early return: record_outcome follows but for delay
\* and switch_mode
ReqTaskStored(r) ==
    /\ req[r].pc = "store_task"
    /\ req' = [req EXCEPT ![r] =
                 IF @.status \in { "error", "blocked", "permission_required" }
                 THEN Suspend(@, "record_outcome")
                 ELSE Returned]
    /\ UNCHANGED << now, st, safe_mode, settings, models, events, sched, hist, args, ret >>

\* _run_command returns
ReqCommandFinished(r) ==
    /\ req[r].pc = "run_command"
    /\ \E status \in { "success", "failed", "timeout" } :
         req' = [req EXCEPT ![r] = Suspend([@ EXCEPT !.status = status],
                                           "record_outcome")]
    /\ UNCHANGED << now, st, safe_mode, settings, models, events, sched, hist, args, ret >>

\* the row of record_outcome lands
ReqOutcomeRecorded(r) ==
    /\ req[r].pc = "record_outcome"
    /\ BagCardinality(events) < MaxEvents
    /\ events' = InsertEvent(events, OutcomeOf(req[r]), now)
    /\ req' = [req EXCEPT ![r] = IF @.ran THEN Suspend(@, "store_result")
                                 ELSE Returned]
    /\ UNCHANGED << now, st, safe_mode, settings, models, sched, hist, args, ret >>

\* store_task and record_action return after the command
ReqResultStored(r) ==
    /\ req[r].pc = "store_result"
    /\ req' = [req EXCEPT ![r] = Returned]
    /\ UNCHANGED << now, st, safe_mode, settings, models, events, sched, hist, args, ret >>

\* an await of the pipeline raises (the probe, the database): the request fails
ReqRaises(r) ==
    /\ req[r].pc \in { "refresh", "store_task", "record_outcome", "store_result" }
    /\ req' = [req EXCEPT ![r] = Returned]
    /\ UNCHANGED << now, st, safe_mode, settings, models, events, sched, hist, args, ret >>

(***************************************************************************)
(* The system                                                              *)
(***************************************************************************)
Init ==
    /\ Constructed
    /\ safe_mode = FALSE
    /\ settings = ShortSettings
    /\ args = NoCall
    /\ ret = NoReturn

Next ==
    \/ Startup
    \/ StartupRefreshed
    \/ Tick
    \/ SchedWake
    \/ SchedRefreshed
    \/ SchedIdleSwitchStored
    \/ SchedStressStored
    \/ SchedPatternsAnalyzed
    \/ SchedSuggestionsGenerated
    \/ SchedSummarised
    \/ SchedOptimisationLogged
    \/ SchedFailuresCounted
    \/ SchedSafeModeLogged
    \/ SchedTickError
    \/ Shutdown
    \/ SchedCancelled
    \/ LifespanStopped
    \/ \E r \in Requests :
         \/ SwitchModeEndpoint(r)
         \/ SafeModeEndpoint(r)
         \/ ReqArrives(r)
         \/ ReqCommandGenerated(r)
         \/ ReqRefreshed(r)
         \/ ReqTaskStored(r)
         \/ ReqCommandFinished(r)
         \/ ReqOutcomeRecorded(r)
         \/ ReqResultStored(r)
         \/ ReqRaises(r)

Spec == Init /\ [][Next]_vars

(***************************************************************************)
(* The scheduler over several ticks, from startup to shutdown, on a server *)
(* that gets no /execute request: no failure is recorded, so the breaker   *)
(* does not trip.                                                          *)
(***************************************************************************)
MaxSchedMinutes == 3

\* the idle timeout is one tick or two ticks long
InitSched ==
    /\ Constructed
    /\ safe_mode = FALSE
    /\ settings \in { ShortSettings,
                      [ShortSettings EXCEPT !.idle_timeout_minutes = 2] }
    /\ args = NoCall
    /\ ret = NoReturn

LongTick ==
    /\ TimePasses
    /\ now < MaxSchedMinutes * SecondsPerMinute
    /\ now' = now + SecondsPerMinute
    /\ UNCHANGED << st, safe_mode, settings, models, events, sched, req, hist, args, ret >>

NextSched ==
    \/ Startup
    \/ StartupRefreshed
    \/ LongTick
    \/ SchedWake
    \/ SchedRefreshed
    \/ SchedIdleSwitchStored
    \/ SchedStressStored
    \/ SchedPatternsAnalyzed
    \/ SchedSuggestionsGenerated
    \/ SchedSummarised
    \/ SchedOptimisationLogged
    \/ SchedFailuresCounted
    \/ SchedTickError
    \/ Shutdown
    \/ SchedCancelled
    \/ LifespanStopped
    \/ \E r \in Requests :
         \/ SwitchModeEndpoint(r)
         \/ SafeModeEndpoint(r)

SpecSched == InitSched /\ [][NextSched]_vars

\* the event loop runs a task that is ready
SpecSchedFair ==
    /\ SpecSched
    /\ WF_vars(SchedCancelled)
    /\ WF_vars(LifespanStopped)

\* a step of a tick: the await the tick is in returns or raises
TickStep ==
    \/ SchedTickError
    \/ SchedRefreshed
    \/ SchedIdleSwitchStored
    \/ SchedStressStored
    \/ SchedPatternsAnalyzed
    \/ SchedSuggestionsGenerated
    \/ SchedSummarised
    \/ SchedOptimisationLogged
    \/ SchedFailuresCounted

\* the scheduler keeps ticking: the clock goes on while the loop sleeps, a
\* sleep that is over ends, and an await of the tick returns or raises
SpecSchedTicking ==
    /\ SpecSched
    /\ WF_vars(LongTick)
    /\ WF_vars(SchedWake)
    /\ WF_vars(TickStep)

(***************************************************************************)
(* GET /system-state next to the scheduler: the third place, after the     *)
(* startup and the tick, where the registry changes.                       *)
(***************************************************************************)
\* GET /system-state: await system_state.refresh()
SystemStateEndpoint(r) ==
    /\ Arrives(r)
    /\ req' = [req EXCEPT ![r] = Suspend(@, "system_state_refresh")]
    /\ UNCHANGED << now, st, safe_mode, settings, models, events, sched, hist, args, ret >>

\* the refresh returns: auto_unload_check when enabled, then the names of
\* the registry are copied into loaded_models and the snapshot returned
SystemStateRefreshed(r) ==
    /\ req[r].pc = "system_state_refresh"
    /\ \E status \in ProbeStatuses :
         LET w == Refreshed(World, status)
             kept == IF settings.auto_unload
                     THEN auto_unload_check(w.models,
                                            settings.model_unload_timeout_minutes, now)[1]
                     ELSE w.models
         IN  Becomes([w EXCEPT !.models = kept,
                               !.st.loaded_models = ActiveModelNames(kept)])
    /\ req' = [req EXCEPT ![r] = Returned]
    /\ UNCHANGED << now, safe_mode, settings, events, args, ret >>

\* the probe raises: the request ends with nothing assigned
SystemStateProbeFails(r) ==
    /\ req[r].pc = "system_state_refresh"
    /\ req' = [req EXCEPT ![r] = Returned]
    /\ UNCHANGED << now, st, safe_mode, settings, models, events, sched, hist, args, ret >>

NextRegistry ==
    \/ NextSched
    \/ \E r \in Requests :
         \/ SystemStateEndpoint(r)
         \/ SystemStateRefreshed(r)
         \/ SystemStateProbeFails(r)

SpecRegistry == InitSched /\ [][NextRegistry]_vars

(***************************************************************************)
(* Direct calls of the methods of SystemState, in any order, on the object *)
(* as constructed.  ret holds the last call: its name, its argument, the   *)
(* object and the time it was made on, what it returned, and the name and  *)
(* the value of the call before it.                                        *)
(***************************************************************************)
MaxMinutes == 2

Earlier == [fn |-> ret.fn, value |-> IF ret.fn = None THEN None ELSE ret.value]

Called(fn, arg, value) ==
    [ fn |-> fn, arg |-> arg, before |-> st, at |-> now, value |-> value,
      earlier |-> Earlier ]

\* history: the mode that is left when a call enters idle
NoteMode(h, s, after) ==
    [h EXCEPT !.left_mode = IF s.mode # "idle" /\ after.mode = "idle"
                            THEN Some(s.mode) ELSE @]

\* the modes switch_mode is called with; "gaming" is no mode
ModeArguments == VALID_MODES \cup { "gaming" }

\* the timeouts check_idle is called with, in minutes
IdleTimeouts == 0..MaxMinutes

InitCalls ==
    /\ Constructed
    /\ safe_mode = FALSE
    /\ settings = ShortSettings
    /\ args = NoCall
    /\ ret = NoReturn

CallSwitchMode ==
    /\ \E new_mode \in ModeArguments :
         LET r == switch_mode(st, new_mode, now)
         IN  /\ st' = r[1]
             /\ hist' = NoteMode(hist, st, r[1])
             /\ ret' = Called("switch_mode", new_mode, r[2])
    /\ UNCHANGED << now, safe_mode, settings, models, events, sched, req, args >>

CallWake ==
    /\ LET r == wake(st, now)
       IN  /\ st' = r[1]
           /\ hist' = NoteMode(hist, st, r[1])
           /\ ret' = Called("wake", None, r[2])
    /\ UNCHANGED << now, safe_mode, settings, models, events, sched, req, args >>

CallCheckIdle ==
    /\ \E idle_timeout_minutes \in IdleTimeouts :
         LET r == check_idle(st, idle_timeout_minutes, now)
         IN  /\ st' = r[1]
             /\ hist' = NoteMode(hist, st, r[1])
             /\ ret' = Called("check_idle", idle_timeout_minutes, r[2])
    /\ UNCHANGED << now, safe_mode, settings, models, events, sched, req, args >>

CallTouch ==
    /\ st' = touch(st, now)
    /\ ret' = Called("touch", None, None)
    /\ UNCHANGED << now, safe_mode, settings, models, events, sched, req, hist, args >>

\* a minute passes between two calls
MinutePasses ==
    /\ now < MaxMinutes * SecondsPerMinute
    /\ now' = now + SecondsPerMinute
    /\ UNCHANGED << st, safe_mode, settings, models, events, sched, req, hist, args, ret >>

NextMode ==
    \/ CallSwitchMode
    \/ CallWake
    \/ CallCheckIdle
    \/ CallTouch
    \/ MinutePasses

SpecMode == InitCalls /\ [][NextMode]_vars

\* refresh and is_system_stressed, in any order: the probe reads the CPU
\* below or above the threshold, the RAM plentiful or used up, and the GPU
\* in every way _get_gpu_info ends
CallRefresh ==
    /\ \E cpu \in { 50, 90 }, used_gb \in { 4, 8 }, probe \in GpuProbes :
         /\ st' = refresh(st, Status(cpu, 8, used_gb, _get_gpu_info(probe)))
         /\ ret' = Called("refresh", probe, None)
    /\ UNCHANGED << now, safe_mode, settings, models, events, sched, req, hist, args >>

CallIsSystemStressed ==
    /\ LET e == is_system_stressed(st, settings, now)
       IN  /\ st' = e.st
           /\ ret' = Called("is_system_stressed", None,
                            [stressed |-> e.stressed, reasons |-> e.reasons])
    /\ UNCHANGED << now, safe_mode, settings, models, events, sched, req, hist, args >>

NextStress ==
    \/ CallRefresh
    \/ CallIsSystemStressed
    \/ MinutePasses

SpecStress == InitCalls /\ [][NextStress]_vars

(***************************************************************************)
(* Direct calls of the methods of ModelController, in any order, on the    *)
(* controller as constructed: no model is registered.                      *)
(***************************************************************************)

ModelNamesAsked == { DefaultModel, "local/llama3" }

\* the call that returned last, the registry it found, and the call before it
ModelCalled(fn, arg, value) ==
    [ fn |-> fn, arg |-> arg, before |-> models, at |-> now, value |-> value,
      earlier |-> IF ret.fn = None
                  THEN [fn |-> None, arg |-> None, value |-> None]
                  ELSE [fn |-> ret.fn, arg |-> ret.arg, value |-> ret.value] ]

CallLoadModel ==
    /\ \E name \in ModelNamesAsked :
         LET r == load_model(models, name, now)
         IN  /\ models' = r[1]
             /\ ret' = ModelCalled("load_model", name, r[2])
    /\ UNCHANGED << now, st, safe_mode, settings, events, sched, req, hist, args >>

CallUnloadModel ==
    /\ \E name \in ModelNamesAsked :
         LET r == unload_model(models, name)
         IN  /\ models' = r[1]
             /\ ret' = ModelCalled("unload_model", name, r[2])
    /\ UNCHANGED << now, st, safe_mode, settings, events, sched, req, hist, args >>

CallTouchModel ==
    /\ \E name \in ModelNamesAsked :
         /\ models' = touch_model(models, name, now)
         /\ ret' = ModelCalled("touch_model", name, None)
    /\ UNCHANGED << now, st, safe_mode, settings, events, sched, req, hist, args >>

CallAutoUnloadCheck ==
    /\ \E timeout_minutes \in IdleTimeouts :
         LET r == auto_unload_check(models, timeout_minutes, now)
         IN  /\ models' = r[1]
             /\ ret' = ModelCalled("auto_unload_check", timeout_minutes, r[2])
    /\ UNCHANGED << now, st, safe_mode, settings, events, sched, req, hist, args >>

CallGetActiveModels ==
    /\ ret' = ModelCalled("get_active_models", None, get_active_models(models, now))
    /\ UNCHANGED << now, st, safe_mode, settings, models, events, sched, req, hist, args >>

NextModels ==
    \/ CallLoadModel
    \/ CallUnloadModel
    \/ CallTouchModel
    \/ CallAutoUnloadCheck
    \/ CallGetActiveModels
    \/ MinutePasses

SpecModels == InitCalls /\ [][NextModels]_vars

(***************************************************************************)
(* Direct calls of reflection_engine.py and of clear_memory, in any order, *)
(* while a caller evaluates should_enter_safe_mode again and again.  The   *)
(* clock moves half an hour at a time, so that failures leave the window   *)
(* of 60 minutes.                                                          *)
(***************************************************************************)

MaxHalfHours == 3
MaxOutcomes == 3

HalfHour == 30 * SecondsPerMinute

\* the event types record_outcome is called with
OutcomeKinds == { "failure", "blocked", "timeout", "success" }

\* the other event types of resource_events: permission_denied and override
\* of the reflection engine, stress and idle_switch of the scheduler
OtherKinds == { "permission_denied", "override", "stress", "idle_switch" }

\* the windows get_failure_count is asked for, in minutes
WindowsAsked == { 30, FailureWindowMinutes }

InitReflection ==
    /\ now = 0
    /\ st = NewSystemState(0)
    /\ models = NoModels
    /\ events = EmptyBag
    /\ sched = [NewScheduler EXCEPT !.pc = "sleep"]
    /\ req = [r \in Requests |-> NewRequest]
    /\ hist = NewHistory
    /\ safe_mode = FALSE
    /\ settings = ShortSettings
    /\ args = NoCall
    /\ ret = NoReturn

\* record_outcome(event_type)
CallRecordOutcome ==
    /\ BagCardinality(events) < MaxOutcomes
    /\ \E event_type \in OutcomeKinds :
         events' = InsertEvent(events, event_type, now)
    /\ UNCHANGED << now, st, safe_mode, settings, models, sched, req, hist, args, ret >>

\* store_event(event_type, details) with a type get_failure_count does not name
CallStoreEvent ==
    /\ BagCardinality(events) < MaxOutcomes
    /\ \E event_type \in OtherKinds :
         events' = InsertEvent(events, event_type, now)
    /\ UNCHANGED << now, st, safe_mode, settings, models, sched, req, hist, args, ret >>

\* clear_memory: DELETE FROM resource_events
CallClearMemory ==
    /\ events # EmptyBag
    /\ events' = EmptyBag
    /\ UNCHANGED << now, st, safe_mode, settings, models, sched, req, hist, args, ret >>

\* a reset that deletes the recorded events as well
CallSetSafeMode_forgets_failures ==
    /\ \E enabled \in BOOLEAN :
         LET r == set_safe_mode(safe_mode, enabled)
         IN  /\ safe_mode' = r[1]
             /\ ret' = [ fn |-> "set_safe_mode", arg |-> enabled, value |-> r[2],
                         during |-> sched.pc ]
             /\ hist' = [hist EXCEPT !.trips = IF enabled THEN @ ELSE 0]
             /\ events' = IF enabled THEN events ELSE EmptyBag
    /\ UNCHANGED << now, st, settings, models, sched, req, args >>

\* set_safe_mode(enabled); switching safe mode off is the explicit reset
CallSetSafeMode ==
    /\ \E enabled \in BOOLEAN :
         LET r == set_safe_mode(safe_mode, enabled)
         IN  /\ safe_mode' = r[1]
             /\ ret' = [ fn |-> "set_safe_mode", arg |-> enabled, value |-> r[2],
                         during |-> sched.pc ]
             /\ hist' = [hist EXCEPT !.trips = IF enabled THEN @ ELSE 0]
    /\ UNCHANGED << now, st, settings, models, events, sched, req, args >>

\* decide(instruction, "ls -la", "safe", False): the evaluation reads the flag
\* through is_safe_mode(); after_set is the argument of a set_safe_mode that
\* returned just before
CallDecideNow ==
    /\ \E instruction \in { I_train, I_list } :
         ret' = [ fn |-> "decide", arg |-> instruction,
                  value |-> decide(instruction, C_ls, "safe", FALSE, settings),
                  after_set |-> IF ret.fn = "set_safe_mode"
                                THEN Some(ret.arg) ELSE Absent ]
    /\ UNCHANGED << now, st, safe_mode, settings, models, events, sched, req, hist, args >>

\* execute_instruction after a decide that does not run the command:
\* store_task, then record_outcome with the event type of the verdict
CallRecordVerdict ==
    /\ ret.fn = "decide"
    /\ ret.value.action \in { "reject", "ask_permission" }
    /\ BagCardinality(events) < MaxOutcomes
    /\ LET q == [NewRequest EXCEPT !.decision = ret.value,
                                    !.status = StatusOf(ret.value)]
       IN  /\ events' = InsertEvent(events, OutcomeOf(q), now)
           /\ ret' = [ fn |-> "record_outcome", arg |-> OutcomeOf(q),
                       verdict |-> ret.value.reason.msg ]
    /\ UNCHANGED << now, st, safe_mode, settings, models, sched, req, hist, args >>

\* get_failure_count(window_minutes), as get_reflection_status calls it
CallGetFailureCount ==
    /\ \E window_minutes \in WindowsAsked :
         ret' = [ fn |-> "get_failure_count", arg |-> window_minutes,
                  value |-> get_failure_count(events, window_minutes, now) ]
    /\ UNCHANGED << now, st, safe_mode, settings, models, events, sched, req, hist, args >>

\* should_enter_safe_mode(threshold) is called: await get_failure_count
CallShouldEnterSafeMode ==
    /\ sched.pc = "sleep"
    /\ sched' = [sched EXCEPT !.pc = "failure_count"]
    /\ UNCHANGED << now, st, safe_mode, settings, models, events, req, hist, args, ret >>

\* the count returns: the trip, or the return of False
FailuresCounted ==
    /\ sched.pc = "failure_count"
    /\ LET count == get_failure_count(events, FailureWindowMinutes, now)
           threshold == settings.reflection_failure_threshold
           r == should_enter_safe_mode(safe_mode, count, threshold)
           tripped == r[2]
       IN  /\ safe_mode' = r[1]
           /\ ret' = [ fn |-> "should_enter_safe_mode", arg |-> threshold,
                       count |-> count, was_active |-> safe_mode, value |-> tripped,
                       after_reset |-> ( ret.fn = "set_safe_mode" /\ ~ret.arg ) ]
           /\ hist' = [hist EXCEPT !.trips = IF tripped THEN @ + 1 ELSE @]
           /\ sched' = [sched EXCEPT !.pc = IF tripped THEN "safe_mode_log" ELSE "sleep"]
    /\ UNCHANGED << now, st, settings, models, events, req, args >>

\* the row of optimization_log lands: True is returned
SafeModeLogged ==
    /\ sched.pc = "safe_mode_log"
    /\ sched' = [sched EXCEPT !.pc = "sleep"]
    /\ UNCHANGED << now, st, safe_mode, settings, models, events, req, hist, args, ret >>

SafeModeLogFails_clears_flag ==
    /\ sched.pc = "safe_mode_log"
    /\ sched' = [sched EXCEPT !.pc = "sleep"]
    /\ safe_mode' = FALSE
    /\ ret' = [fn |-> "db.insert", arg |-> "optimization_log", raised |-> TRUE]
    /\ UNCHANGED << now, st, settings, models, events, req, hist, args >>

\* the insert into optimization_log raises: the exception leaves
\* should_enter_safe_mode, which has no handler and has set the flag before
SafeModeLogFails ==
    /\ sched.pc = "safe_mode_log"
    /\ sched' = [sched EXCEPT !.pc = "sleep"]
    /\ ret' = [fn |-> "db.insert", arg |-> "optimization_log", raised |-> TRUE]
    /\ UNCHANGED << now, st, safe_mode, settings, models, events, req, hist, args >>

HalfHourPasses ==
    /\ sched.pc = "sleep"
    /\ now < MaxHalfHours * HalfHour
    /\ now' = now + HalfHour
    /\ UNCHANGED << st, safe_mode, settings, models, events, sched, req, hist, args, ret >>

NextReflection ==
    \/ CallRecordOutcome
    \/ CallClearMemory
    \/ CallSetSafeMode
    \/ CallDecideNow
    \/ CallRecordVerdict
    \/ CallShouldEnterSafeMode
    \/ FailuresCounted
    \/ SafeModeLogged
    \/ SafeModeLogFails
    \/ HalfHourPasses

SpecReflection == InitReflection /\ [][NextReflection]_vars

\* the table resource_events, its writers and get_failure_count
NextEvents ==
    \/ CallRecordOutcome
    \/ CallStoreEvent
    \/ CallClearMemory
    \/ CallGetFailureCount
    \/ HalfHourPasses

SpecEvents == InitReflection /\ [][NextEvents]_vars

(***************************************************************************)
(* Properties                                                              *)
(***************************************************************************)
LowerText(w) == [k \in 1..Len(w) |-> Lower(w[k])]

\* the whole words of a text: its maximal runs of word characters, lower-cased
WholeWords(text) ==
    { LowerText(SubSeq(text, i, j)) :
        <<i, j>> \in { p \in (1..Len(text)) \X (1..Len(text)) :
                        /\ p[1] <= p[2]
                        /\ \A k \in p[1]..p[2] : IsWordChar(text[k])
                        /\ (p[1] = 1 \/ ~IsWordChar(text[p[1] - 1]))
                        /\ (p[2] = Len(text) \/ ~IsWordChar(text[p[2] + 1])) } }

ContainsWord(text, keywords) == WholeWords(text) \cap keywords # {}

Combined(a) == a.instruction \o <<" ">> \o a.command

MatchesRuleOf(text, cost) ==
    \E k \in DOMAIN _COST_PATTERNS :
        _COST_PATTERNS[k].cost = cost /\ Search(_COST_PATTERNS[k].pattern, text)

\* cost is above the configured maximum max, both cost classes
Above(cost, max) ==
    << max, cost >> \in { <<"low", "medium">>, <<"low", "high">>, <<"medium", "high">> }

Decided == ret.fn = "decide"

\* C1: decide rejects every input whose risk tier is dangerous, whatever the
\* instruction, command, cost, stress flag, safe-mode flag and configuration.
C1_DangerousAlwaysRejected ==
    (Decided /\ ret.risk_level = "dangerous") => ret.value.action = "reject"

\* a dangerous input that no other rule would have stopped
C1_Witness ==
    /\ Decided
    /\ ret.risk_level = "dangerous"
    /\ ~safe_mode /\ ~args.is_stressed
    /\ ret.value.estimated_cost = "low"
    /\ ret.value.action = "reject"

\* C3: with safe mode active and the estimated cost above safe_mode_max_cost,
\* decide rejects and cites safe mode, for every risk tier but dangerous and for
\* both values of the stress flag.
C3_SafeModeRejectsAboveMax ==
    ( /\ Decided
      /\ safe_mode
      /\ ret.risk_level # "dangerous"
      /\ Above(ret.value.estimated_cost, settings.safe_mode_max_cost) )
    => /\ ret.value.action = "reject"
       /\ ret.value.reason =
            Reason(MsgSafeMode, << settings.safe_mode_max_cost, ret.value.estimated_cost >>)

\* maximum low, cost medium, risk tier safe, system stressed
C3_Witness ==
    /\ Decided
    /\ safe_mode
    /\ settings.safe_mode_max_cost = "low"
    /\ ret.value.estimated_cost = "medium"
    /\ ret.risk_level = "safe"
    /\ args.is_stressed
    /\ ret.value.action = "reject"
    /\ ret.value.reason.msg = MsgSafeMode

\* safe mode rejects a high-cost task: it is active and the maximum is not high
SafeModeRejectsHigh == safe_mode /\ settings.safe_mode_max_cost # "high"

\* C4: an instruction that matches a high-cost rule has estimated cost high, and
\* if the system is stressed as well (risk tier safe, safe mode not rejecting)
\* decide answers switch_mode with suggested_mode idle.
C4_HighCostStressedSwitchesMode ==
    (Decided /\ MatchesRuleOf(args.instruction, "high"))
    => /\ ret.value.estimated_cost = "high"
       /\ (args.is_stressed /\ ret.risk_level = "safe" /\ ~SafeModeRejectsHigh)
          => /\ ret.value.action = "switch_mode"
             /\ ret.value.suggested_mode = "idle"

\* 'train a model on the dataset' with a command that matches no cost rule
C4_Witness ==
    /\ Decided
    /\ args.instruction = I_train
    /\ ~MatchesRuleOf(args.command, "high")
    /\ args.is_stressed
    /\ ret.value.estimated_cost = "high"
    /\ ret.value.action = "switch_mode"
    /\ ret.value.suggested_mode = "idle"

\* the ordered rule list 1-7 of the decision gate: << applies, action, reason
\* text, suggested mode >> per rule
GateRules(risk, cost, stressed, safe, max, ask) ==
    << << risk = "dangerous", "reject", MsgDangerous, None >>,
       << safe /\ Above(cost, max), "reject", MsgSafeMode, None >>,
       << stressed /\ risk = "moderate", "ask_permission", MsgStressedModerate, None >>,
       << cost = "high" /\ stressed, "switch_mode", MsgHighCostStressed, "idle" >>,
       << risk = "moderate" /\ ask, "ask_permission", MsgModerateConfig, None >>,
       << stressed, "execute", MsgCaution, None >>,
       << TRUE, "execute", MsgAdequate, None >> >>

FirstApplicable(rules) ==
    CHOOSE k \in DOMAIN rules : rules[k][1] /\ \A j \in 1..(k - 1) : ~rules[j][1]

C6_CostByRulePriority ==
    /\ \A i, j \in DOMAIN _COST_PATTERNS :
          (_COST_PATTERNS[i].cost = "high" /\ _COST_PATTERNS[j].cost = "medium") => i < j
    /\ ret.fn = "estimate_cost" =>
          ret.value = IF MatchesRuleOf(Combined(args), "high") THEN "high"
                      ELSE IF MatchesRuleOf(Combined(args), "medium") THEN "medium"
                      ELSE "low"

\* a text that matches a high-cost and a medium-cost rule
C6_Witness ==
    /\ ret.fn = "estimate_cost"
    /\ MatchesRuleOf(Combined(args), "high")
    /\ MatchesRuleOf(Combined(args), "medium")
    /\ ret.value = "high"

\* C7: a command that holds a dangerous keyword as a whole word is dangerous,
\* also when a moderate keyword matches; the classification is moderate only
\* when a moderate keyword matches and no dangerous keyword does.
C7_DangerousSupersedesModerate ==
    ret.fn = "classify_command" =>
        /\ ContainsWord(args.command, DANGEROUS_KEYWORDS) => ret.value = "dangerous"
        /\ ret.value = "moderate" =>
              /\ ContainsWord(args.command, MODERATE_KEYWORDS)
              /\ ~ContainsWord(args.command, DANGEROUS_KEYWORDS)

\* a command with a dangerous and a moderate keyword
C7_Witness ==
    /\ ret.fn = "classify_command"
    /\ ContainsWord(args.command, DANGEROUS_KEYWORDS)
    /\ ContainsWord(args.command, MODERATE_KEYWORDS)
    /\ ret.value = "dangerous"

\* C8: a keyword that occurs only inside a longer word does not raise the
\* classification: a command none of whose whole words is a keyword is safe.
C8_SubstringDoesNotEscalate ==
    ( /\ ret.fn = "classify_command"
      /\ ~ContainsWord(args.command, DANGEROUS_KEYWORDS \cup MODERATE_KEYWORDS) )
    => ret.value = "safe"

\* "format": 'rm' inside a longer word
C8_Witness ==
    /\ ret.fn = "classify_command"
    /\ args.command = <<"f","o","r","m","a","t">>
    /\ Search(KeywordPatternUnanchored(DANGEROUS_KEYWORDS), args.command)
    /\ ret.value = "safe"

\* C9: classifier and gate are total: the tier of a command is one of safe,
\* moderate, dangerous; decide gives a Decision for every input, also for a risk
\* tier or a safe_mode_max_cost it does not know; a command that matches no
\* keyword and no cost rule is safe, of low cost and executed when the system is
\* not stressed.
C9_TotalAndFailOpen ==
    Decided =>
        /\ args.risk_level = None => ret.risk_level \in RiskTiers
        /\ DOMAIN ret.value = { "action", "reason", "estimated_cost", "suggested_mode" }
        /\ ret.value.action \in Actions
        /\ ret.value.estimated_cost \in CostClasses
        /\ ( /\ args.risk_level = None
             /\ ~ContainsWord(args.command, DANGEROUS_KEYWORDS \cup MODERATE_KEYWORDS)
             /\ \A c \in CostClasses : ~MatchesRuleOf(Combined(args), c)
             /\ ~args.is_stressed )
           => /\ ret.risk_level = "safe"
              /\ ret.value.estimated_cost = "low"
              /\ ret.value.action = "execute"

\* an unmatched command under safe mode with an unknown safe_mode_max_cost
C9_Witness ==
    /\ Decided
    /\ args.risk_level = None
    /\ args.command = C_format
    /\ args.instruction = I_list
    /\ settings.safe_mode_max_cost \notin CostClasses
    /\ safe_mode
    /\ ~args.is_stressed
    /\ ret.risk_level = "safe"
    /\ ret.value.action = "execute"

(***************************************************************************)
(* Properties of the running system                                        *)
(***************************************************************************)
\* a request whose command has been started and that has not returned yet
Ran(r) == req[r].ran

\* C2: in the execute pipeline a command is run only when the verdict of the
\* gate for that request is execute: a request whose command is classified
\* dangerous, or whose verdict is reject, ask_permission, delay or switch_mode,
\* never runs its command, whatever the scheduler and the other requests do
\* in between.
C2_RunOnlyOnExecute ==
    \A r \in Requests :
        Ran(r) => /\ req[r].decision.action = "execute"
                  /\ req[r].risk_level # "dangerous"

\* one request runs its command while the scheduler is in the middle of a tick
\* and another request, refused by the gate, is on its early return
C2_Witness ==
    \E r \in Requests, q \in Requests :
        /\ req[r].pc = "run_command"
        /\ Ran(r)
        /\ req[q].pc = "store_task"
        /\ req[q].decision.action \in { "reject", "ask_permission", "switch_mode" }
        /\ ~Ran(q)
        /\ sched.pc \notin { "sleep", "not_started", "startup_refresh" }

\* C10: stress debounce.  While the CPU reading stays above cpu_threshold, the
\* CPU branch of is_system_stressed is false at every evaluation made less
\* than stress_cpu_duration_seconds after the exceedance began, and true at
\* every evaluation made at or after that duration.
C10_DebounceFromExceedance ==
    hist.last_eval # Absent =>
        LET e == hist.last_eval[1]
        IN  e.cpu_high =>
                (e.cpu_stressed <=> e.high_for[1] >= settings.stress_cpu_duration_seconds)

(***************************************************************************)
(* Properties of SystemState: modes                                        *)
(***************************************************************************)
\* the fields the mode methods write
ModeFields(s) ==
    << s.mode, s.previous_mode, s.monitoring_frequency, s.last_activity >>

\* C14: switch_mode with a value outside the mode enumeration reports an
\* error and changes no field of SystemState: not the mode, the remembered
\* mode, the monitoring cadence or the last-activity clock.
C14_InvalidModeChangesNothing ==
    (ret.fn = "switch_mode" /\ ret.arg \notin VALID_MODES) =>
        /\ ret.value.status = "error"
        /\ st = ret.before

\* an invalid mode is refused a minute after the last activity, in a mode
\* other than the initial one
C14_Witness ==
    /\ ret.fn = "switch_mode"
    /\ ret.arg = "gaming"
    /\ ret.before.mode = "coding"
    /\ ret.at > ret.before.last_activity

\* C15: entering idle from a mode m remembers m, and a wake that follows
\* sets the mode back to m and returns previous idle / current m; entering
\* idle while already idle does not overwrite the remembered mode.
C15_WakeRestoresLeftMode ==
    /\ (ret.fn = "wake" /\ ret.before.mode = "idle" /\ hist.left_mode # Absent) =>
           /\ st.mode = hist.left_mode[1]
           /\ ret.value = [ status |-> "ok", previous_mode |-> "idle",
                            current_mode |-> hist.left_mode[1] ]
    /\ (ret.fn \in { "switch_mode", "check_idle" }
           /\ ret.before.mode # "idle" /\ st.mode = "idle") =>
           st.previous_mode = ret.before.mode
    /\ (ret.fn = "switch_mode" /\ ret.arg = "idle" /\ ret.before.mode = "idle") =>
           st.previous_mode = ret.before.previous_mode

\* voice is left through check_idle, idle is entered once more, and the wake
\* that follows restores voice
C15_Witness ==
    /\ ret.fn = "wake"
    /\ ret.before.mode = "idle"
    /\ ret.earlier.fn = "switch_mode"
    /\ ret.earlier.value.status = "ok"
    /\ ret.earlier.value.previous_mode = "idle"
    /\ ret.earlier.value.current_mode = "idle"
    /\ hist.left_mode = Some("voice")
    /\ st.mode = "voice"

\* C16: wake on a non-idle mode returns already_active and changes no field
\* of SystemState, and a wake right after a wake leaves the mode, the
\* remembered mode and the cadence as the first wake left them.
C16_WakeIdempotent ==
    /\ (ret.fn = "wake" /\ ret.before.mode # "idle") =>
           /\ ret.value = [status |-> "already_active", mode |-> ret.before.mode]
           /\ st = ret.before
    /\ (ret.fn = "wake" /\ ret.earlier.fn = "wake") =>
           /\ st.mode = ret.before.mode
           /\ st.previous_mode = ret.before.previous_mode
           /\ st.monitoring_frequency = ret.before.monitoring_frequency

\* a wake that restored coding is followed by a second wake, a minute later
C16_Witness ==
    /\ ret.fn = "wake"
    /\ ret.earlier.fn = "wake"
    /\ ret.earlier.value.status = "ok"
    /\ ret.before.mode = "coding"
    /\ ret.before.previous_mode = "coding"
    /\ ret.at > ret.before.last_activity

C11_StressedIffAnyBranch ==
    ret.fn = "is_system_stressed" =>
        LET b == ret.before
            cpu == /\ b.cpu_percent > settings.cpu_threshold
                   /\ b.cpu_high_since # Absent
                   /\ ret.at - b.cpu_high_since[1] >= settings.stress_cpu_duration_seconds
            ram == b.ram_available_mb < 500
            gpu == /\ b.gpu_utilization # Absent
                   /\ b.gpu_utilization[1] > settings.gpu_threshold
        IN  /\ ret.value.stressed <=> (cpu \/ ram \/ gpu)
            /\ ret.value.reasons = { x \in { "CPU", "RAM", "GPU" } :
                                       \/ x = "CPU" /\ cpu
                                       \/ x = "RAM" /\ ram
                                       \/ x = "GPU" /\ gpu }

\* the first evaluation after a reading that breaches the GPU threshold
\* alone: the CPU is above its threshold but the window has just opened
C11_Witness ==
    /\ ret.fn = "is_system_stressed"
    /\ ret.earlier.fn = "refresh"
    /\ ret.before.cpu_percent = 90
    /\ ret.before.cpu_high_since = Absent
    /\ ret.before.ram_available_mb >= 500
    /\ ret.value.stressed
    /\ ret.value.reasons = { "GPU" }

\* C13: a probe without GPU data (no GPU, failed query, timeout) makes
\* refresh leave gpu_utilization absent, never zero, whatever it held before,
\* and while gpu_utilization is absent the GPU is no reason of stress.
C13_NoGpuDataStaysAbsent ==
    /\ (ret.fn = "refresh" /\ ret.arg.kind # "ok") =>
           /\ st.gpu_utilization = Absent
           /\ st.gpu_utilization # Some(0)
    /\ (ret.fn = "is_system_stressed" /\ ret.before.gpu_utilization = Absent) =>
           "GPU" \notin ret.value.reasons

\* the query times out after a reading of 95%
C13_Witness ==
    /\ ret.fn = "refresh"
    /\ ret.arg.kind = "timeout"
    /\ ret.before.gpu_utilization = Some(95)
    /\ st.gpu_utilization = Absent

(***************************************************************************)
(* Properties of SystemState in the running system                         *)
(***************************************************************************)
\* C12: the stress window is cleared the instant the CPU drops: in every
\* reachable state in which the CPU reading held by SystemState is not above
\* cpu_threshold, the start of the stress window is absent.
C12_WindowClearedWhenCpuDrops ==
    ~(st.cpu_percent > settings.cpu_threshold) => st.cpu_high_since = Absent

\* C17: mode and monitoring cadence are paired: in every reachable state,
\* from the initial state on, mode idle implies cadence reduced.
C17_IdleImpliesReduced ==
    st.mode = "idle" => st.monitoring_frequency = "reduced"

(***************************************************************************)
(* Properties of the breaker                                               *)
(***************************************************************************)
\* C19: should_enter_safe_mode sets safe mode and returns true only when the
\* count of the last 60 minutes is at least the threshold and safe mode is
\* not active; while safe mode is active it returns false and leaves it
\* active, whatever the count; between two resets it returns true at most
\* once.
C19_BreakerTripsOnce ==
    [][ (sched.pc = "failure_count" /\ sched'.pc # "failure_count") =>
          /\ ret'.fn = "should_enter_safe_mode"
          /\ ret'.value => /\ ret'.count >= ret'.arg
                           /\ ~safe_mode
                           /\ safe_mode'
          /\ safe_mode => (~ret'.value /\ safe_mode')
          /\ hist'.trips <= 1 ]_vars

\* after a trip, an evaluation that counts enough failures again returns false
C19_Witness ==
    /\ ret.fn = "should_enter_safe_mode"
    /\ ret.was_active
    /\ ret.count >= ret.arg
    /\ ~ret.value
    /\ hist.trips = 1
    /\ safe_mode

\* C20: safe mode does not clear itself: the flag goes from true to false
\* only in a set_safe_mode(false) step, not in a breaker evaluation, an
\* outcome record, the ageing of the failures or the clearing of the events.
C20_SafeModeDoesNotSelfClear ==
    [][ (safe_mode /\ ~safe_mode') =>
          /\ CallSetSafeMode
          /\ ret'.arg = FALSE ]_vars

\* safe mode has tripped and is still active at an evaluation that finds the
\* recorded failures older than the window
C20_Witness ==
    /\ ret.fn = "should_enter_safe_mode"
    /\ ret.was_active
    /\ ret.count = 0
    /\ events # EmptyBag
    /\ hist.trips = 1
    /\ safe_mode

\* ---------------------------------------------------------------------------
\* C21: set_safe_mode(b) takes effect at once, from any state: when it returns
\* the flag equals b and the reply carries b and the value the flag had before;
\* a decide evaluated next rejects a task above safe_mode_max_cost exactly
\* when b is true; the call goes through while should_enter_safe_mode is
\* suspended in its count query or in its insert.
C21_SetSafeModeImmediate ==
    /\ [][ ( ret'.fn = "set_safe_mode" /\ CallSetSafeMode ) =>
             /\ safe_mode' = ret'.arg
             /\ is_safe_mode' = ret'.arg
             /\ ret'.value = [ status |-> "ok", safe_mode |-> ret'.arg,
                               previous |-> safe_mode ] ]_vars
    /\ [][ ( ret'.fn = "decide" /\ CallDecideNow /\ ret'.after_set # Absent ) =>
             LET b == ret'.after_set[1]
                 d == ret'.value
                 above == CostLevel(d.estimated_cost)
                            > CostLevel(settings.safe_mode_max_cost)
             IN  /\ (d.action = "reject") <=> (b /\ above)
                 /\ (d.reason.msg = MsgSafeMode) <=> (b /\ above) ]_vars

\* the flag was cleared while the breaker evaluation waited for its insert,
\* and the reply reports that it had been set
C21_Witness ==
    /\ ret.fn = "set_safe_mode"
    /\ ret.during = "safe_mode_log"
    /\ ret.arg = FALSE
    /\ ret.value.previous = TRUE
    /\ safe_mode = FALSE

\* ---------------------------------------------------------------------------
\* C22: get_failure_count(w) is the number of rows of resource_events whose
\* event_type is failure, blocked or timeout and whose timestamp is no older
\* than w minutes; rows of type success, permission_denied, override, stress
\* and idle_switch add nothing to it.
RECURSIVE RowsCounted(_, _)
RowsCounted(rows, wanted) ==
    IF wanted = {} THEN 0
    ELSE LET row == CHOOSE x \in wanted : TRUE
         IN  CopiesIn(row, rows) + RowsCounted(rows, wanted \ { row })

RecentFailures(rows, w, t) ==
    { row \in BagToSet(rows) :
        /\ \/ row.event_type = "failure"
           \/ row.event_type = "blocked"
           \/ row.event_type = "timeout"
        /\ t - row.timestamp <= w * SecondsPerMinute }

C22_FailureCountExact ==
    [][ CallGetFailureCount =>
          ret'.value = RowsCounted(events, RecentFailures(events, ret'.arg, now)) ]_vars

\* a count of one, half an hour wide, over a table that holds a failure of the
\* last half hour, a failure that is older and a denied permission
C22_Witness ==
    /\ ret.fn = "get_failure_count"
    /\ ret.arg = 30
    /\ ret.value = 1
    /\ \E row \in BagToSet(events) :
         row.event_type = "failure" /\ now - row.timestamp > 30 * SecondsPerMinute
    /\ \E row \in BagToSet(events) :
         row.event_type = "failure" /\ now - row.timestamp <= 30 * SecondsPerMinute
    /\ \E row \in BagToSet(events) : row.event_type = "permission_denied"

\* ---------------------------------------------------------------------------
\* C23: a failing write of the audit row does not undo the trip: when the
\* insert into optimization_log raises, the flag is what it was before the
\* insert, and it is true unless set_safe_mode(false) was called since the
\* trip.
C23_TripSurvivesLogFailure ==
    [][ SafeModeLogFails =>
          /\ safe_mode' = safe_mode
          /\ hist.trips >= 1 => safe_mode' ]_vars

\* the insert of the trip has raised and safe mode is active
C23_Witness ==
    /\ ret.fn = "db.insert"
    /\ ret.raised
    /\ hist.trips = 1
    /\ safe_mode
    /\ sched.pc = "sleep"

\* ---------------------------------------------------------------------------
\* C24: the registry holds one record for a name at most: get_active_models
\* lists no name twice; load_model of a name that is not registered adds its
\* record, stamped with the time of the call, and returns "loaded";
\* load_model of a registered name writes last_used only, keeps loaded_at
\* and every other record, and returns "already_loaded".
EntryNames(entries) == { e.name : e \in entries }

C24_OneRecordPerName ==
    /\ Cardinality(get_active_models(models, now)) = Cardinality(DOMAIN models)
    /\ EntryNames(get_active_models(models, now)) = DOMAIN models
    /\ ret.fn = "load_model" =>
         LET name == ret.arg
             was == ret.before
         IN  /\ DOMAIN models = DOMAIN was \cup { name }
             /\ \A n \in DOMAIN was \ { name } : models[n] = was[n]
             /\ models[name].last_used = ret.at
             /\ IF name \in DOMAIN was
                THEN /\ ret.value = "already_loaded"
                     /\ models[name].loaded_at = was[name].loaded_at
                ELSE /\ ret.value = "loaded"
                     /\ models[name].loaded_at = ret.at

\* a model loaded earlier is loaded again: same load time, new time of use
C24_Witness ==
    /\ ret.fn = "load_model"
    /\ ret.value = "already_loaded"
    /\ models[ret.arg].loaded_at < ret.at
    /\ models[ret.arg].last_used = ret.at
    /\ ret.before[ret.arg].last_used < ret.at
    /\ Cardinality(DOMAIN models) = 2

\* ---------------------------------------------------------------------------
\* C25: auto_unload_check(timeout) removes the records whose last use is at
\* least timeout minutes old and no other, whatever their load time; it
\* returns the names it removed; the records used more recently stay as
\* they were; a get_active_models that follows lists none of the removed
\* names.
IdleFor(record, t) == t - record.last_used

C26_TouchDoesNotRegister ==
    /\ [](( ret.fn = "touch_model" /\ ret.arg \notin DOMAIN ret.before )
            => models = ret.before)
    /\ [][ \A n \in ModelNamesAsked :
             ( n \notin DOMAIN models /\ n \in DOMAIN models' )
                => ( CallLoadModel /\ ret'.arg = n ) ]_vars

\* a model that auto_unload_check has just removed is touched and stays out
C26_Witness ==
    /\ ret.fn = "touch_model"
    /\ ret.earlier.fn = "auto_unload_check"
    /\ ret.arg \in ret.earlier.value
    /\ ret.arg \notin DOMAIN models

\* ---------------------------------------------------------------------------
\* C29: whatever switch_mode (with a mode of the enumeration or not), wake
\* and check_idle have been called, the mode is one member of VALID_MODES,
\* so one heavy mode is active at most, and the remembered previous mode is
\* a member of VALID_MODES too.
C29_ModeWithinEnumeration ==
    /\ st.mode \in VALID_MODES
    /\ st.previous_mode \in VALID_MODES
    /\ Cardinality({ m \in HEAVY_MODES : st.mode = m }) <= 1

\* switch_mode("gaming") was refused in a heavy mode that had replaced the
\* other heavy mode
C29_Witness ==
    /\ ret.fn = "switch_mode"
    /\ ret.arg \notin VALID_MODES
    /\ ret.value.status = "error"
    /\ st.mode = "heavy"
    /\ ret.earlier.fn = "switch_mode"
    /\ ret.earlier.value.status = "ok"
    /\ ret.earlier.value.previous_mode = "voice"

\* ---------------------------------------------------------------------------
\* C27: the loop survives the failure of a step: the tick whose await raised
\* ends in the sleep of the loop with the next wake-up one interval ahead,
\* a sleep that is over starts a tick, and the task stops running only in
\* the shutdown of lifespan, which cancels it.
C27_LoopSurvivesStepFailure ==
    /\ [][ SchedTickError =>
             /\ sched'.pc = "sleep"
             /\ sched'.wake_at = now + settings.background_loop_interval ]_vars
    /\ []( ( sched.pc = "sleep" /\ now >= sched.wake_at ) => ENABLED SchedWake )
    /\ [][ ( Running /\ ~Running' ) => Shutdown ]_vars

\* a tick has started after a tick that ended in the handler
C27_Witness ==
    /\ sched.pc = "refresh"
    /\ hist.tick_failed_at # Absent
    /\ sched.now > hist.tick_failed_at[1]

\* ---------------------------------------------------------------------------
\* C28: the shutdown ends the scheduler: the CancelledError thrown into the
\* task is not caught by the handler of the tick, whichever await it hits;
\* from the cancel on no step of the tick and no later tick runs and what
\* the steps before have written stays as it is; the await of the task in
\* lifespan returns.
Cancelling == sched.pc \in { "cancel_in_sleep", "cancel_in_tick" }

C28_StopTerminates ==
    /\ [][ SchedCancelled => sched'.pc = "cancelled" ]_vars
    /\ [][ ( Cancelling \/ sched.pc \in { "cancelled", "stopped" } ) =>
             /\ sched'.pc \in { "cancelled", "stopped" }
             /\ st' = st /\ models' = models /\ events' = events
             /\ safe_mode' = safe_mode ]_vars
    /\ Cancelling ~> ( sched.pc = "stopped" )

\* the task was cancelled in the await of auto_summarise, after step 3 of
\* that tick had stored its stress event: the task is over and the row is there
C28_Witness ==
    /\ sched.pc = "stopped"
    /\ hist.cancelled_in = "auto_summarise"
    /\ \E row \in BagToSet(events) :
         row.event_type = "stress" /\ row.timestamp = now

\* ---------------------------------------------------------------------------
\* C30: the stress event of step 3 is written on a best effort: when its
\* store_event raises, the tick goes on with step 4 and the steps after it,
\* so the tick does not go from that await to the sleep of the loop.
C30_StressLogBestEffort ==
    [][ ( sched.pc = "store_stress" /\ Running' ) =>
          sched'.pc \in { "store_stress", "analyze_patterns",
                          "generate_suggestions", "auto_summarise" } ]_vars

\* ---------------------------------------------------------------------------
\* C31: a probe that fails in the refresh of step 1 does not end the tick: the
\* tick goes on with the readings it has, through the idle check, the model
\* eviction, the cadence adjustment and the breaker evaluation, so the tick
\* does not go from the await of the refresh to the sleep of the loop.
C31_ProbeFailureKeepsTick ==
    [][ ( sched.pc = "refresh" /\ Running' ) =>
          sched'.pc \in { "refresh", "store_idle_switch", "store_stress",
                          "analyze_patterns", "generate_suggestions",
                          "auto_summarise" } ]_vars

\* ---------------------------------------------------------------------------
\* C32: the two throttled sub-tasks are gated each by its own last run: a
\* tick that has reached step 4 ends with pattern analysis run in it or not
\* due, and with the suggestions run in it or not due, whatever became of
\* the other sub-task in that tick; and a sub-task is started only when its
\* interval has passed since its last start.
FromStepFour ==
    { "analyze_patterns", "generate_suggestions", "auto_summarise",
      "optimization_log", "failure_count", "safe_mode_log" }

RanOrNotDue(last, interval, t) == last = Some(t) \/ ~Due(last, interval, t)

StartedWhenDue(last, started, interval) ==
    started # last => ( started # Absent /\ Due(last, interval, started[1]) )

C32_ThrottlesIndependent ==
    /\ [][ ( sched.pc \in FromStepFour /\ sched'.pc = "sleep" ) =>
             /\ RanOrNotDue(sched'.last_pattern_scan,
                            settings.pattern_analysis_interval, sched.now)
             /\ RanOrNotDue(sched'.last_proactive_run,
                            settings.proactive_interval, sched.now) ]_vars
    /\ [][ /\ StartedWhenDue(sched.last_pattern_scan, sched'.last_pattern_scan,
                             settings.pattern_analysis_interval)
           /\ StartedWhenDue(sched.last_proactive_run, sched'.last_proactive_run,
                             settings.proactive_interval) ]_vars

Snapshot(s) ==
    << s.cpu_percent, s.ram_available_mb, s.gpu_utilization >>

ReadingOf(status) ==
    << status.cpu_percent,
       (status.ram.total_gb - status.ram.used_gb) * MbPerGb,
       IF status.gpu = Absent THEN Absent
       ELSE Some(status.gpu[1].utilization_percent) >>

C34_SnapshotWholesale ==
    /\ []( \/ Snapshot(st) = Snapshot(NewSystemState(0))
           \/ \E status \in ProbeStatuses : Snapshot(st) = ReadingOf(status) )
    /\ [][ ( sched.pc = "refresh" /\ sched'.pc = "sleep" )
             => Snapshot(st') = Snapshot(st) ]_vars
    /\ [][ \A r \in Requests :
             ( req[r].pc = "refresh" /\ req'[r].pc = "done" )
                => Snapshot(st') = Snapshot(st) ]_vars

\* the scheduler and two requests await their refresh together, over a
\* snapshot that an earlier refresh has written
C34_Witness ==
    /\ sched.pc = "refresh"
    /\ \A r \in Requests : req[r].pc = "refresh"
    /\ Snapshot(st) = ReadingOf(Status(50, 8, 8, Gpu(95)))

\* ---------------------------------------------------------------------------
\* C35: a request that has been through decide reports one outcome before it
\* returns, whatever the verdict: when the store_task of an early return has
\* landed, the request goes on to record_outcome.
C35_EveryVerdictReported ==
    [][ \A r \in Requests :
          ( /\ req[r].pc = "store_task"
            /\ req[r].decision # NoDecision
            /\ ReqTaskStored(r) )
             => req'[r].pc = "record_outcome" ]_vars

\* ---------------------------------------------------------------------------
\* C36: the breaker evaluation is not starved by the steps before it: a tick
\* that runs while the failures of the last 60 minutes are at the threshold
\* and safe mode is off does not end before should_enter_safe_mode has been
\* called, whatever becomes of its earlier steps.
C36_BreakerNotStarved ==
    [][ ( /\ sched.pc \in AwaitsOfTheTick \cup { "generate_suggestions" }
          /\ sched'.pc = "sleep"
          /\ ~safe_mode
          /\ get_failure_count(events, FailureWindowMinutes, now)
                >= settings.reflection_failure_threshold )
           => sched.pc \in { "failure_count", "safe_mode_log" } ]_vars

\* ---------------------------------------------------------------------------
\* C37: set_safe_mode(false) leaves the recorded events alone: a breaker
\* evaluation that finds safe mode off and the failures of the last 60
\* minutes at the threshold trips and returns true, also right after a
\* reset; and a request that decide rejected because of safe mode records
\* a blocked event, which get_failure_count counts.
C37_ResetKeepsFailureHistory ==
    /\ [][ ( ret'.fn = "set_safe_mode" /\ CallSetSafeMode ) => events' = events ]_vars
    /\ [][ ( /\ sched.pc = "failure_count"
             /\ sched'.pc # "failure_count"
             /\ ~safe_mode
             /\ get_failure_count(events, FailureWindowMinutes, now)
                   >= settings.reflection_failure_threshold )
              => ( ret'.value /\ safe_mode' ) ]_vars
    /\ [][ ( /\ ret.fn = "decide"
             /\ ret'.fn = "record_outcome"
             /\ ret.value.reason.msg = MsgSafeMode )
              => /\ ret'.arg = "blocked"
                 /\ get_failure_count(events', FailureWindowMinutes, now)
                      = get_failure_count(events, FailureWindowMinutes, now) + 1 ]_vars

\* the breaker trips in the evaluation that follows a reset, over a count
\* that holds the blocked event of a request rejected in safe mode
C37_Witness ==
    /\ ret.fn = "should_enter_safe_mode"
    /\ ret.after_reset
    /\ ret.value
    /\ safe_mode
    /\ \E row \in BagToSet(events) : row.event_type = "blocked"
    /\ \E row \in BagToSet(events) : row.event_type = "failure"

\* ---------------------------------------------------------------------------
\* C38: at the step in which the executor starts the command of a request,
\* the flags of that moment are those the gate decided with: safe mode is
\* not active with the estimated cost above safe_mode_max_cost, and the
\* verdict is the one decide gives for the stress of the current snapshot;
\* whatever the scheduler's breaker evaluation or a manual set_safe_mode
\* did before or does after that step.
CommandStarts(r) == req[r].pc = "refresh" /\ req'[r].pc = "run_command"

C38_GateFlagsCurrentAtStart ==
    [][ \A r \in Requests :
          CommandStarts(r) =>
            LET d == req'[r].decision
                stressed == is_system_stressed(st', settings, now).stressed
            IN  /\ req'[r].gate_safe_mode = Some(safe_mode')
                /\ ~( safe_mode' /\ Above(d.estimated_cost, settings.safe_mode_max_cost) )
                /\ d.action = "execute"
                /\ d.reason.msg = IF stressed THEN MsgCaution ELSE MsgAdequate ]_vars

\* a command is running that the gate let through with safe mode active,
\* while the scheduler is in its breaker evaluation
C38_Witness ==
    /\ \E r \in Requests : /\ req[r].pc = "run_command"
                            /\ req[r].gate_safe_mode = Some(TRUE)
                            /\ ~Above(req[r].decision.estimated_cost,
                                      settings.safe_mode_max_cost)
    /\ sched.pc \in { "failure_count", "safe_mode_log" }

\* ---------------------------------------------------------------------------
\* C39: after every change of the registry (the load of the default model
\* at startup, an eviction in a tick, an eviction in GET /system-state)
\* loaded_models of the system state holds exactly the registered names.
C39_LoadedModelsFollowRegistry ==
    [][ models' # models => st'.loaded_models = ActiveModelNames(models') ]_vars

\* ---------------------------------------------------------------------------
\* C40: idle detection fires.  The tick whose refresh returns with the mode
\* not idle and the last activity idle_timeout minutes back switches to
\* idle, remembers the mode it leaves, reduces the cadence and sets the
\* last activity to the time of the switch, all before it awaits the store
\* of the idle_switch event; the end of that await, the row stored or the
\* store raising, leaves the mode, the remembered mode, the cadence and the
\* last activity as they are.  And while the scheduler
\* keeps ticking, a mode that is not idle with the last activity
\* idle_timeout minutes back becomes idle, unless there is activity, the
\* server shuts down, or the tick of that time ends in the handler of the
\* loop with the mode not switched (the probe raised).
IdleIsDue == st.mode # "idle"
             /\ now - st.last_activity >= settings.idle_timeout_minutes * SecondsPerMinute

C40_IdleDetectionFires ==
    /\ [][ ( sched.pc = "refresh" /\ IdleIsDue /\ SchedRefreshed ) =>
             /\ st'.mode = "idle"
             /\ st'.previous_mode = st.mode
             /\ st'.monitoring_frequency = "reduced"
             /\ st'.last_activity = now
             /\ sched'.pc = "store_idle_switch" ]_vars
    /\ [][ ( sched.pc = "store_idle_switch" /\ sched'.pc # "store_idle_switch" )
             => /\ st'.mode = st.mode
                /\ st'.previous_mode = st.previous_mode
                /\ st'.monitoring_frequency = st.monitoring_frequency
                /\ st'.last_activity = st.last_activity ]_vars
    /\ ( Running /\ IdleIsDue )
         ~> ( \/ st.mode = "idle"
              \/ ~IdleIsDue
              \/ ~Running
              \/ hist.tick_failed_at = Some(now) )

\* the tick has switched from coding to idle and ended in the handler of the
\* loop because the store of the idle_switch event raised: no such row is
\* there, the mode is idle and the clock of the last activity is the tick's
C40_Witness ==
    /\ sched.pc = "sleep"
    /\ hist.tick_failed_at = Some(now)
    /\ st.mode = "idle"
    /\ st.previous_mode = "coding"
    /\ st.monitoring_frequency = "reduced"
    /\ st.last_activity = now
    /\ \A row \in BagToSet(events) : row.event_type # "idle_switch"

====
